---- MODULE Spec2Model ----
(***************************************************************************)
(* Review-annotation engine of kubelingoassist: the JSON-backed comment    *)
(* store (CommentStorageManager), the comment controller                   *)
(* (TranslationCommentController) and the GitHub push/import adapter       *)
(* (GitHubReviewSync).                                                     *)
(***************************************************************************)
EXTENDS Integers, Sequences, FiniteSets, TLC

VARIABLES
    workspaceRoot,   \* CommentStorageManager.workspaceRoot is non-empty
    disk,            \* the file .kubelingo-reviews.json
    rtPc,            \* position of a save-then-load caller of the store
    rtInput,         \* the mapping that caller saves
    rtLoaded,        \* what its loadComments() returned (<<>> before the call)
    comments,        \* TranslationCommentController.comments
    commentThreads,  \* ids of the live thread handles (keys of commentThreads)
    loadPc,          \* the constructor's loadCommentsFromStorage: reading, read, done
    loadBuf,         \* what its readFile found
    writes,          \* writeFile calls in flight, each with the content it writes
    nextUuid,        \* ids handed out so far, plus one
    docs,            \* the text lines of each document
    applyPending,    \* an applySuggestion awaiting editor.edit: <<>> or <<[id, ok]>>
    pushPc,          \* position of the pushAllToGitHub call: idle, loop, review, done
    pushArgs,        \* its arguments [prNumber, reviewEvent]
    pushQueue,       \* unsyncedComments not yet reached by its loop
    pushInflight,    \* the comment whose syncToGitHub is awaited: <<>> or <<c>>
    pushAttempted,   \* ids handed to syncToGitHub by this call, in order
    pushCount,       \* its successCount
    pushResult,      \* <<>>, or <<n>> once the call returned n, or <<-1>> if it threw
    remoteLog,       \* remote actions this call completed (gh pr review ...)
    pushSnapshot,    \* the controller's store when the call selected its candidates
    pushCalls,       \* calls of pushAllToGitHub so far
    pushHistory,     \* [id, ok] of every syncToGitHub completed by earlier calls
    rtCall,          \* the store operation the store's caller made, with what it saw
    callPc,          \* position of the controller's single caller: idle, editing, saving, returned
    callOp,          \* the controller operation it called, with its arguments
    callPre,         \* the store, threads, file and documents when it called
    callOut,         \* what the call reported: thrown or not, messages shown, the write's fate
    callCount,       \* calls made so far
    syncPc,          \* position of the syncFromGitHub caller: idle, returned
    ghRemote,        \* the review comments the pull request has on GitHub
    ghFetched,       \* what fetchPRComments returned to syncFromGitHub
    syncResult,      \* the ReviewComment[] syncFromGitHub returned
    ghExec,          \* fate of the gh command fetchPRComments ran: none, ok, failed
    gh,              \* the machine and the remote: gh installed, logged in, fork parent, pull requests
    prLog,           \* the gh and git commands the current call has run, in order
    prCall,          \* the PR operation called, with its arguments
    prResult,        \* what the call gave its caller: thrown or not, value, messages shown
    aiCall,          \* the classifyIntent call made: the message and what the AI service did
    aiResult,        \* the AIIntentResult classifyIntent returned: <<>> or <<r>>
    isSyncScrollEnabled,  \* TranslationCommandManager.isSyncScrollEnabled
    isKubelingoEnabled,   \* TranslationCommandManager.isKubelingoEnabled
    currentMode,     \* TranslationCommandManager.currentMode
    disposables,     \* ScrollSyncManager.disposables: the listeners registered
    workspaceState,  \* context.workspaceState: the values kept across restarts
    topLine          \* the first visible line of each translation editor

rtVars == <<rtPc, rtInput, rtLoaded, rtCall>>
ctrlVars == <<comments, commentThreads, loadPc, loadBuf, writes, nextUuid, docs, applyPending>>
pushVars == <<pushPc, pushArgs, pushQueue, pushInflight, pushAttempted, pushCount, pushResult,
              remoteLog, pushSnapshot, pushCalls, pushHistory>>
callVars == <<callPc, callOp, callPre, callOut, callCount>>
importVars == <<syncPc, ghRemote, ghFetched, syncResult, ghExec>>
remoteVars == <<gh, prLog, prCall, prResult>>
aiVars == <<aiCall, aiResult>>
scrollVars == <<isSyncScrollEnabled, isKubelingoEnabled, currentMode, disposables, workspaceState, topLine>>
extVars == <<aiVars, scrollVars>>
nonCtrlVars == <<rtVars, pushVars, callVars, importVars, remoteVars, extVars, extVars>>
nonRtVars == <<ctrlVars, pushVars, callVars, importVars, remoteVars, extVars, extVars>>
vars == <<workspaceRoot, disk, rtVars, ctrlVars, pushVars, callVars, importVars, remoteVars, extVars, extVars>>

(***************************************************************************)
(* Values.  An optional field (suggestion?, prCommentId?) is <<>> when it  *)
(* is undefined or missing and <<v>> when it holds v.  A Date and the ISO  *)
(* string JSON.stringify makes of it are different values.                 *)
(***************************************************************************)
None == <<>>
Some(v) == <<v>>

DateOf(n) == [kind |-> "Date", ms |-> n]
\* Date.prototype.toJSON, as JSON.stringify applies it to createdAt
ToISOString(d) == [kind |-> "string", ms |-> d.ms]
\* new Date(value): parses the ISO string; a Date is copied
NewDate(v) == [kind |-> "Date", ms |-> v.ms]

CommentType == {"general", "suggestion", "question", "terminology", "grammar", "style"}

Files == {"f1", "f2"}

\* A ReviewComment object of the controller's memory.
MkComment(id, filePath, author, body, type, lineNumber, createdAt, resolved, suggestion, replies, prCommentId) ==
    [id |-> id, filePath |-> filePath, author |-> author, body |-> body,
     type |-> type, lineNumber |-> lineNumber, createdAt |-> createdAt,
     resolved |-> resolved, suggestion |-> suggestion, replies |-> replies,
     prCommentId |-> prCommentId]

(***************************************************************************)
(* A Map<string, ReviewComment[]> is the sequence of its entries in        *)
(* insertion order, each [k |-> file path, v |-> comments].                *)
(***************************************************************************)
MapKeys(m) == {m[i].k : i \in 1..Len(m)}
MapHas(m, key) == key \in MapKeys(m)
MapIndex(m, key) == CHOOSE i \in 1..Len(m) : m[i].k = key
MapGet(m, key) == m[MapIndex(m, key)].v
MapSetOnly(m, key, val) == <<[k |-> key, v |-> val]>>

\* Map.prototype.set: an existing key keeps its position
MapSet(m, key, val) ==
    IF MapHas(m, key)
    THEN [m EXCEPT ![MapIndex(m, key)] = [k |-> key, v |-> val]]
    ELSE Append(m, [k |-> key, v |-> val])

(***************************************************************************)
(* CommentStorageManager: JSON.stringify / JSON.parse of the store.        *)
(***************************************************************************)
\* The JSON object JSON.stringify writes for one comment: createdAt through
\* toJSON, undefined-valued keys left out, replies written recursively.
RECURSIVE StringifyComment(_)
StringifyComment(c) ==
    [id |-> c.id, filePath |-> c.filePath, author |-> c.author, body |-> c.body,
     type |-> c.type, lineNumber |-> c.lineNumber,
     createdAt |-> ToISOString(c.createdAt), resolved |-> c.resolved,
     replies |-> [i \in 1..Len(c.replies) |-> StringifyComment(c.replies[i])]]
    @@ (IF c.suggestion # None THEN [suggestion |-> c.suggestion[1]] ELSE <<>>)
    @@ (IF c.prCommentId # None THEN [prCommentId |-> c.prCommentId[1]] ELSE <<>>)

\* { version: '1.0', comments: Object.fromEntries(comments) }, stringified
SerializeStorage(cmap) ==
    [version |-> "1.0",
     comments |-> [i \in 1..Len(cmap) |->
        [k |-> cmap[i].k,
         v |-> [n \in 1..Len(cmap[i].v) |-> StringifyComment(cmap[i].v[n])]]]]

\* reading a key of a parsed JSON object: undefined when the key is missing
Field(obj, key) == IF key \in DOMAIN obj THEN Some(obj[key]) ELSE None

\* ({ ...reply, createdAt: new Date(reply.createdAt) }): the reply's own replies
\* are kept as parsed
ReviveReply(reply) ==
    MkComment(reply.id, reply.filePath, reply.author, reply.body, reply.type,
              reply.lineNumber, NewDate(reply.createdAt), reply.resolved,
              Field(reply, "suggestion"), reply.replies, Field(reply, "prCommentId"))

ReviveCommentNoDate(comment) ==
    MkComment(comment.id, comment.filePath, comment.author, comment.body, comment.type,
              comment.lineNumber, comment.createdAt, comment.resolved,
              Field(comment, "suggestion"),
              [i \in 1..Len(comment.replies) |-> ReviveReply(comment.replies[i])],
              Field(comment, "prCommentId"))

\* ({ ...comment, createdAt: new Date(comment.createdAt), replies: ...map(...) })
ReviveComment(comment) ==
    MkComment(comment.id, comment.filePath, comment.author, comment.body, comment.type,
              comment.lineNumber, NewDate(comment.createdAt), comment.resolved,
              Field(comment, "suggestion"),
              [i \in 1..Len(comment.replies) |-> ReviveReply(comment.replies[i])],
              Field(comment, "prCommentId"))

\* the loop over Object.entries(data.comments) of loadComments
ParseStorage(data) ==
    [i \in 1..Len(data.comments) |->
        [k |-> data.comments[i].k,
         v |-> [n \in 1..Len(data.comments[i].v) |-> ReviveComment(data.comments[i].v[n])]]]

DiskAbsent == [kind |-> "absent"]
DiskCorrupt == [kind |-> "corrupt"]
DiskFile(data) == [kind |-> "file", data |-> data]

loadCommentsNoRootCheck(root, d) ==
    IF d.kind = "file" THEN ParseStorage(d.data) ELSE <<>>

\* loadComments(): an empty Map without a workspace root, when the file is
\* missing and when it does not parse
loadComments(root, d) ==
    IF ~root THEN <<>>
    ELSE IF d.kind = "file" THEN ParseStorage(d.data)
    ELSE <<>>

\* saveComments(comments): the outcome and the file afterwards; writeOk is the
\* filesystem's answer to writeFile
saveComments(root, d, cmap, writeOk) ==
    IF ~root THEN [outcome |-> "skipped", disk |-> d]
    ELSE IF writeOk THEN [outcome |-> "saved", disk |-> DiskFile(SerializeStorage(cmap))]
    ELSE [outcome |-> "threw", disk |-> d]

\* saveFileComments(filePath, comments): loadComments(), Map.set, saveComments
saveFileComments(root, d, filePath, cs, writeOk) ==
    saveComments(root, d, MapSet(loadComments(root, d), filePath, cs), writeOk)

\* loadFileComments(filePath): allComments.get(filePath) || []
loadFileComments(root, d, filePath) ==
    LET allComments == loadComments(root, d)
    IN IF MapHas(allComments, filePath) THEN MapGet(allComments, filePath) ELSE <<>>

\* exists(): false without a workspace root, else whether stat finds the file
exists(root, d) == root /\ d.kind # "absent"

\* clear(): returns at once without a workspace root; else deletes the file,
\* and a failed delete (a missing file too) is caught and logged
clear(root, d, deleteOk) ==
    IF ~root THEN [outcome |-> "skipped", disk |-> d]
    ELSE IF deleteOk /\ d.kind # "absent" THEN [outcome |-> "deleted", disk |-> DiskAbsent]
    ELSE [outcome |-> "logged", disk |-> d]

(***************************************************************************)
(* Inputs of the store's save-then-load caller.                            *)
(***************************************************************************)
RTMaxLen == 2

RTReply == MkComment(9, "f1", "bob", "re", "general", 1, DateOf(5), FALSE, None, <<>>, None)

RTComments ==
    { MkComment(1, "f1", "You", "b", "general", 1, DateOf(1), FALSE, None, <<>>, None),
      MkComment(2, "f1", "amy", "", "suggestion", 2, DateOf(2), FALSE,
                Some([original |-> "o", suggested |-> "s"]), <<>>, None),
      MkComment(3, "f2", "You", "b", "question", 1, DateOf(3), TRUE, None, <<RTReply>>, None),
      MkComment(4, "f2", "amy", "b", "general", 2, DateOf(4), FALSE, None, <<>>, Some(101)) }

RTLists == UNION {[1..n -> RTComments] : n \in 0..RTMaxLen}

RTMaps ==
    {<<>>}
    \cup {<<[k |-> f, v |-> l]>> : f \in Files, l \in RTLists}
    \cup {<<[k |-> f, v |-> l], [k |-> g, v |-> m]>> :
            f \in Files, g \in Files, l \in RTLists, m \in RTLists}

RTMapsDistinct == {m \in RTMaps : Len(m) = 2 => m[1].k # m[2].k}

RTInitDisks == {DiskAbsent, DiskCorrupt, DiskFile(SerializeStorage(<<[k |-> "f1", v |-> <<RTReply>>]>>))}

\* the controller right after its load, with nothing in flight
CtrlIdle ==
    /\ comments = <<>>
    /\ commentThreads = {}
    /\ loadPc = "done"
    /\ loadBuf = DiskAbsent
    /\ writes = <<>>
    /\ nextUuid = 1
    /\ docs = [f \in Files |-> <<>>]
    /\ applyPending = None

\* no pushAllToGitHub call yet
PushIdle ==
    /\ pushPc = "idle"
    /\ pushArgs = [prNumber |-> None, reviewEvent |-> None]
    /\ pushQueue = <<>>
    /\ pushInflight = None
    /\ pushAttempted = <<>>
    /\ pushCount = 0
    /\ pushResult = None
    /\ remoteLog = <<>>
    /\ pushSnapshot = <<>>
    /\ pushCalls = 0
    /\ pushHistory = {}

\* no call of the controller's single caller yet
CallIdle ==
    /\ callPc = "idle"
    /\ callOp = [op |-> "none"]
    /\ callPre = <<>>
    /\ callOut = <<>>
    /\ callCount = 0

\* no syncFromGitHub call yet
ImportIdle ==
    /\ syncPc = "idle"
    /\ ghRemote = <<>>
    /\ ghFetched = <<>>
    /\ syncResult = None
    /\ ghExec = "none"

\* no PR operation called yet, on a machine without gh
RemoteIdle ==
    /\ gh = <<>>
    /\ prLog = <<>>
    /\ prCall = [op |-> "none"]
    /\ prResult = <<>>

\* the two translation editors of a split view
Editors == {"en", "ko"}

\* no intent classified yet
AiIdle ==
    /\ aiCall = [op |-> "none"]
    /\ aiResult = <<>>

\* a TranslationCommandManager just constructed, over an empty workspaceState
ScrollIdle ==
    /\ isSyncScrollEnabled = FALSE
    /\ isKubelingoEnabled = FALSE
    /\ currentMode = "translation"
    /\ disposables = {}
    /\ workspaceState = [syncScrollEnabled |-> None, kubelingoEnabled |-> None, kubelingoMode |-> None]
    /\ topLine = [e \in Editors |-> 0]

ExtIdle ==
    /\ AiIdle
    /\ ScrollIdle

RTInit ==
    /\ ExtIdle
    /\ CtrlIdle
    /\ PushIdle
    /\ CallIdle
    /\ ImportIdle
    /\ RemoteIdle
    /\ rtCall = [op |-> "none"]
    /\ workspaceRoot \in BOOLEAN
    /\ disk \in RTInitDisks
    /\ rtPc = "start"
    /\ rtInput \in RTMapsDistinct
    /\ rtLoaded = None

\* await storage.saveComments(rtInput)
RTSave ==
    /\ rtPc = "start"
    /\ \E writeOk \in BOOLEAN :
         LET r == saveComments(workspaceRoot, disk, rtInput, writeOk) IN
           /\ disk' = r.disk
           /\ rtPc' = r.outcome
    /\ rtCall' = [op |-> "saveComments", diskBefore |-> disk]
    /\ UNCHANGED <<workspaceRoot, rtInput, rtLoaded, nonRtVars>>

\* await storage.loadComments()
RTLoad ==
    /\ rtPc \in {"start", "saved", "skipped", "threw"}
    /\ rtLoaded' = Some(loadComments(workspaceRoot, disk))
    /\ rtPc' = IF rtPc = "saved" THEN "loadedAfterSave" ELSE "loaded"
    /\ UNCHANGED <<workspaceRoot, disk, rtInput, rtCall, nonRtVars>>

\* what loadFileComments returns for each file path
FileView(root, d) == [f \in Files |-> loadFileComments(root, d, f)]

\* await storage.saveFileComments(p, cs), for a caller whose mapping has the
\* one entry p -> cs
RTSaveFile ==
    /\ rtPc = "start"
    /\ Len(rtInput) = 1
    /\ \E writeOk \in BOOLEAN :
         LET r == saveFileComments(workspaceRoot, disk, rtInput[1].k, rtInput[1].v, writeOk) IN
           /\ disk' = r.disk
           /\ rtCall' = [op |-> "saveFileComments", diskBefore |-> disk, outcome |-> r.outcome,
                         before |-> FileView(workspaceRoot, disk), after |-> <<>>]
    /\ rtPc' = "fileSaved"
    /\ UNCHANGED <<workspaceRoot, rtInput, rtLoaded, nonRtVars>>

\* await storage.loadFileComments(q) for every file path q
RTLoadFiles ==
    /\ rtPc = "fileSaved"
    /\ rtCall' = [rtCall EXCEPT !.after = FileView(workspaceRoot, disk)]
    /\ rtPc' = "fileLoaded"
    /\ UNCHANGED <<workspaceRoot, disk, rtInput, rtLoaded, nonRtVars>>

\* await storage.exists()
RTExists ==
    /\ rtPc = "start"
    /\ rtCall' = [op |-> "exists", diskBefore |-> disk, result |-> exists(workspaceRoot, disk)]
    /\ rtPc' = "done"
    /\ UNCHANGED <<workspaceRoot, disk, rtInput, rtLoaded, nonRtVars>>

\* await storage.clear()
RTClear ==
    /\ rtPc = "start"
    /\ \E deleteOk \in BOOLEAN :
         LET r == clear(workspaceRoot, disk, deleteOk) IN
           /\ disk' = r.disk
           /\ rtCall' = [op |-> "clear", diskBefore |-> disk, outcome |-> r.outcome]
    /\ rtPc' = "done"
    /\ UNCHANGED <<workspaceRoot, rtInput, rtLoaded, nonRtVars>>

RTNext == RTSave \/ RTLoad \/ RTSaveFile \/ RTLoadFiles \/ RTExists \/ RTClear

SpecStore == RTInit /\ [][RTNext]_vars

\* C1: with a workspace root and a successful write, saveComments(M) followed
\* by loadComments() returns M: the same file keys in the same order, the same
\* comments in the same order, every field equal (createdAt as a Date again).
C1_RoundTrip ==
    (rtPc = "loadedAfterSave" /\ rtInput # <<>>) => rtLoaded = Some(rtInput)

C1_Witness ==
    /\ rtPc = "loadedAfterSave"
    /\ Len(rtInput) = 2
    /\ \E i \in 1..2 : \E n \in 1..Len(rtInput[i].v) :
          rtInput[i].v[n].suggestion # None
    /\ \E i \in 1..2 : \E n \in 1..Len(rtInput[i].v) :
          rtInput[i].v[n].replies # <<>>
    /\ rtLoaded = Some(rtInput)

(***************************************************************************)
(* TranslationCommentController.                                           *)
(***************************************************************************)
MaxIds == 2        \* comments created in one session
MaxInflight == 1   \* writeFile calls in flight at once
DocLines == 2      \* lines of each document

Min(S) == CHOOSE x \in S : \A y \in S : x <= y

\* every file's comments, files in Map order
RECURSIVE Flatten(_)
Flatten(m) == IF m = <<>> THEN <<>> ELSE Head(m).v \o Flatten(Tail(m))

StoreIds(m) == {Flatten(m)[i].id : i \in 1..Len(Flatten(m))}

\* a comment written by an earlier session (its uuid differs from this session's);
\* the storage format admits prCommentId
PriorComment ==
    MkComment(101, "f2", "amy", "b", "general", 1, DateOf(0), FALSE, None, <<>>, Some(7))

InitDisks == {DiskAbsent, DiskFile(SerializeStorage(<<[k |-> "f2", v |-> <<PriorComment>>]>>))}

KnownIds == (1..MaxIds) \cup {PriorComment.id}

GitNames == {""}
AddTypes == {"general", "suggestion"}
\* range.start.line of the suggestions made
SuggestLines == {DocLines - 1}
OptFiles == {None} \cup {Some(f) : f \in Files}

RTIdle ==
    /\ rtPc = "idle"
    /\ rtInput = <<>>
    /\ rtLoaded = None
    /\ rtCall = [op |-> "none"]

Init ==
    /\ ExtIdle
    /\ RTIdle
    /\ PushIdle
    /\ CallIdle
    /\ ImportIdle
    /\ RemoteIdle
    /\ workspaceRoot \in BOOLEAN
    /\ disk \in InitDisks
    /\ comments = <<>>
    /\ commentThreads = {}
    \* without a workspace root loadComments returns at once and nothing can
    \* run before the assignment
    /\ loadPc = IF workspaceRoot THEN "reading" ELSE "done"
    /\ loadBuf = DiskAbsent
    /\ writes = <<>>
    /\ nextUuid = 1
    /\ docs = [f \in Files |-> [i \in 1..DocLines |-> "o"]]
    /\ applyPending = None

\* uuidv4(): a value no comment has had
uuidv4Stuck(next) == 1
uuidv4(next) == next

\* getCurrentUser(): the trimmed output of git config user.name, or 'You'
getCurrentUser(gitName) == IF gitName # "" THEN gitName ELSE "You"

\* findComment(commentId): the first match, files in Map order
findComment(m, commentId) ==
    LET all == Flatten(m)
        hits == {i \in 1..Len(all) : all[i].id = commentId}
    IN IF hits = {} THEN None ELSE Some(all[Min(hits)])

MarkResolvedToggle(m, commentId) ==
    LET fi == Min({i \in 1..Len(m) : \E n \in 1..Len(m[i].v) : m[i].v[n].id = commentId})
        ni == Min({n \in 1..Len(m[fi].v) : m[fi].v[n].id = commentId})
    IN [m EXCEPT ![fi].v[ni].resolved = ~@]

\* comment.resolved = true on the object findComment returned
MarkResolved(m, commentId) ==
    LET fi == Min({i \in 1..Len(m) : \E n \in 1..Len(m[i].v) : m[i].v[n].id = commentId})
        ni == Min({n \in 1..Len(m[fi].v) : m[fi].v[n].id = commentId})
    IN [m EXCEPT ![fi].v[ni].resolved = TRUE]

addCommentToStoreFront(m, filePath, comment) ==
    MapSet(m, filePath, <<comment>> \o (IF MapHas(m, filePath) THEN MapGet(m, filePath) ELSE <<>>))

\* addCommentToStore(filePath, comment)
addCommentToStore(m, filePath, comment) ==
    MapSet(m, filePath, Append(IF MapHas(m, filePath) THEN MapGet(m, filePath) ELSE <<>>, comment))

EnqueueSaveBeforeChange(w, root, cmap) == IF root THEN Append(w, SerializeStorage(comments)) ELSE w

\* the controller's saveComments(): storage.saveComments(this.comments) up to
\* its await of writeFile; the content is stringified at the call
EnqueueSave(w, root, cmap) == IF root THEN Append(w, SerializeStorage(cmap)) ELSE w

\* restoreCommentsForDocument for each visible editor: a thread per unresolved comment
RestoredThreads(m, visible) ==
    UNION {{m[e].v[n].id : n \in {j \in 1..Len(m[e].v) : ~m[e].v[j].resolved}} :
              e \in {j \in 1..Len(m) : m[j].k \in visible}}

\* loadComments() reaches readFile: what the file holds then
LoadRead ==
    /\ loadPc = "reading"
    /\ \E readOk \in BOOLEAN :
         loadBuf' = IF readOk THEN disk ELSE DiskAbsent
    /\ loadPc' = "read"
    /\ UNCHANGED <<workspaceRoot, disk, nonCtrlVars, comments, commentThreads, writes, nextUuid, docs, applyPending>>

\* this.comments = await loadComments(), then the threads of the visible editors
LoadAssign(visible) ==
    /\ loadPc = "read"
    /\ comments' = loadComments(workspaceRoot, loadBuf)
    /\ commentThreads' = commentThreads \cup RestoredThreads(comments', visible)
    /\ loadPc' = "done"
    /\ UNCHANGED <<workspaceRoot, disk, nonCtrlVars, loadBuf, writes, nextUuid, docs, applyPending>>

\* a writeFile in flight completes, or is rejected (logged by the controller)
WriteDone(i, writeOk) ==
    /\ i \in 1..Len(writes)
    /\ disk' = IF writeOk THEN DiskFile(writes[i]) ELSE disk
    /\ writes' = [j \in 1..(Len(writes) - 1) |-> IF j < i THEN writes[j] ELSE writes[j + 1]]
    /\ UNCHANGED <<workspaceRoot, nonCtrlVars, comments, commentThreads, loadPc, loadBuf, nextUuid, docs, applyPending>>

\* the tail shared by addComment and addSuggestion: createCommentThread,
\* addCommentToStore, saveComments
storeNew(comment) ==
    /\ commentThreads' = commentThreads \cup {comment.id}
    /\ comments' = addCommentToStore(comments, comment.filePath, comment)
    /\ writes' = EnqueueSave(writes, workspaceRoot, comments')
    /\ nextUuid' = nextUuid + 1

StoreNew(comment) ==
    /\ storeNew(comment)
    /\ UNCHANGED <<workspaceRoot, disk, nonCtrlVars, loadPc, loadBuf, docs, applyPending>>

\* addComment(document, range, body, type)
AddComment(filePath, startLine, body, type, gitName) ==
    /\ nextUuid <= MaxIds
    /\ Len(writes) < MaxInflight
    /\ StoreNew(MkComment(uuidv4(nextUuid), filePath, getCurrentUser(gitName), body, type,
                          startLine + 1, DateOf(nextUuid), FALSE, None, <<>>, None))

\* addSuggestion(document, range, originalText, suggestedText, reason)
AddSuggestion(filePath, startLine, originalText, suggestedText, reason, gitName) ==
    /\ nextUuid <= MaxIds
    /\ Len(writes) < MaxInflight
    /\ StoreNew(MkComment(uuidv4(nextUuid), filePath, getCurrentUser(gitName), reason, "suggestion",
                          startLine + 1, DateOf(nextUuid), FALSE,
                          Some([original |-> originalText, suggested |-> suggestedText]),
                          <<>>, None))

\* resolveComment(commentId), up to the await of the write
resolveComment(commentId) ==
    IF findComment(comments, commentId) = None
    THEN UNCHANGED <<comments, commentThreads, writes>>
    ELSE /\ comments' = MarkResolved(comments, commentId)
         /\ commentThreads' = commentThreads \ {commentId}
         /\ writes' = EnqueueSave(writes, workspaceRoot, comments')

ResolveComment(commentId) ==
    /\ Len(writes) < MaxInflight
    /\ resolveComment(commentId)
    /\ UNCHANGED <<workspaceRoot, disk, nonCtrlVars, loadPc, loadBuf, nextUuid, docs, applyPending>>

\* rejectSuggestion(commentId): resolveComment, then a message
RejectSuggestion(commentId) ==
    /\ Len(writes) < MaxInflight
    /\ resolveComment(commentId)
    /\ UNCHANGED <<workspaceRoot, disk, nonCtrlVars, loadPc, loadBuf, nextUuid, docs, applyPending>>

\* the edit of applySuggestion: line = comment.lineNumber - 1 counted from 0,
\* that is line comment.lineNumber of the document counted from 1; the whole
\* line becomes suggestion.suggested
ReplaceLineWithOriginal(doc, comment) ==
    [doc EXCEPT ![(comment.lineNumber - 1) + 1] = comment.suggestion[1].original]
ReplaceLine(doc, comment) ==
    [doc EXCEPT ![(comment.lineNumber - 1) + 1] = comment.suggestion[1].suggested]

\* applySuggestion(commentId) up to its await of editor.edit: the edit replaces
\* the whole line comment.lineNumber of the active editor's document
ApplySuggestion(commentId, activeEditor, editOk) ==
    /\ applyPending = None
    /\ findComment(comments, commentId) # None
    /\ findComment(comments, commentId)[1].suggestion # None
    /\ activeEditor # None
    /\ LET comment == findComment(comments, commentId)[1]
           file == activeEditor[1]
       IN docs' = IF editOk
                  THEN [docs EXCEPT ![file] = ReplaceLine(docs[file], comment)]
                  ELSE docs
    /\ applyPending' = Some([id |-> commentId, ok |-> editOk])
    /\ UNCHANGED <<workspaceRoot, disk, nonCtrlVars, comments, commentThreads, loadPc, loadBuf, writes, nextUuid>>

\* applySuggestion after the edit: resolveComment when it succeeded
ApplySuggestionResume ==
    /\ applyPending # None
    /\ Len(writes) < MaxInflight
    /\ IF applyPending[1].ok
       THEN resolveComment(applyPending[1].id)
       ELSE UNCHANGED <<comments, commentThreads, writes>>
    /\ applyPending' = None
    /\ UNCHANGED <<workspaceRoot, disk, nonCtrlVars, loadPc, loadBuf, nextUuid, docs>>

Next ==
    \/ LoadRead
    \/ \E visible \in SUBSET Files : LoadAssign(visible)
    \/ \E i \in 1..MaxInflight, writeOk \in BOOLEAN : WriteDone(i, writeOk)
    \/ \E f \in Files, t \in AddTypes, g \in GitNames :
          AddComment(f, 0, "b", t, g)
    \/ \E f \in Files, l \in SuggestLines, g \in GitNames :
          AddSuggestion(f, l, "o", "s", "", g)
    \/ \E id \in KnownIds : ResolveComment(id)
    \/ \E id \in KnownIds : RejectSuggestion(id)
    \/ \E id \in KnownIds, e \in OptFiles, ok \in BOOLEAN : ApplySuggestion(id, e, ok)
    \/ ApplySuggestionResume

Spec == Init /\ [][Next]_vars

(***************************************************************************)
(* The controller under a single caller: after the constructor's load has  *)
(* settled, one operation is called at a time and the next one only after  *)
(* the previous one returned.                                              *)
(***************************************************************************)
\* a suggestion written by an earlier session
PriorSuggestion ==
    MkComment(102, "f1", "amy", "b", "suggestion", 1, DateOf(0), FALSE,
              Some([original |-> "o", suggested |-> "s"]), <<>>, None)

CallDisks ==
    {DiskAbsent,
     DiskFile(SerializeStorage(<<[k |-> "f2", v |-> <<PriorComment>>],
                                 [k |-> "f1", v |-> <<PriorSuggestion>>]>>))}

\* the ids the caller names: the first comment it creates and the two of the
\* earlier session; each is unknown to the store until it is there
CallIds == {uuidv4(1), PriorComment.id, PriorSuggestion.id}

Snapshot == [comments |-> comments, threads |-> commentThreads, disk |-> disk, docs |-> docs]

NoOutcome == [threw |-> FALSE, messages |-> <<>>, edit |-> "none", write |-> "none"]

Message(level, text) == [level |-> level, text |-> text]

\* the call is the same operation on the same id as the call before it
Again(op, id) == callOp.op = op /\ callOp.id = id

CallInit ==
    /\ ExtIdle
    /\ RTIdle
    /\ PushIdle
    /\ CallIdle
    /\ ImportIdle
    /\ RemoteIdle
    /\ workspaceRoot \in BOOLEAN
    /\ disk \in CallDisks
    /\ comments = loadComments(workspaceRoot, disk)
    /\ \E visible \in {{}, Files} : commentThreads = RestoredThreads(comments, visible)
    /\ loadPc = "done"
    /\ loadBuf = disk
    /\ writes = <<>>
    /\ nextUuid = 1
    /\ docs = [f \in Files |-> [i \in 1..DocLines |-> "o"]]
    /\ applyPending = None

MaxCalls == 3   \* operations called in one session

\* the caller is between two calls; the call it makes is counted
CallFree ==
    /\ callPc \in {"idle", "returned"}
    /\ callCount < MaxCalls
    /\ callCount' = callCount + 1

\* addComment(document, range, body, type) called, up to the await of the write
CallAddComment(filePath, startLine, body, type, gitName) ==
    /\ CallFree
    /\ nextUuid <= MaxIds
    /\ storeNew(MkComment(uuidv4(nextUuid), filePath, getCurrentUser(gitName), body, type,
                          startLine + 1, DateOf(nextUuid), FALSE, None, <<>>, None))
    /\ callOp' = [op |-> "addComment", id |-> uuidv4(nextUuid), again |-> FALSE]
    /\ callPre' = Snapshot
    /\ callOut' = NoOutcome
    /\ callPc' = "saving"
    /\ UNCHANGED <<workspaceRoot, disk, rtVars, pushVars, importVars, remoteVars, extVars, loadPc, loadBuf, docs, applyPending>>

\* addSuggestion(document, range, originalText, suggestedText, reason) called
CallAddSuggestion(filePath, startLine, originalText, suggestedText, reason, gitName) ==
    /\ CallFree
    /\ nextUuid <= MaxIds
    /\ storeNew(MkComment(uuidv4(nextUuid), filePath, getCurrentUser(gitName), reason, "suggestion",
                          startLine + 1, DateOf(nextUuid), FALSE,
                          Some([original |-> originalText, suggested |-> suggestedText]),
                          <<>>, None))
    /\ callOp' = [op |-> "addSuggestion", id |-> uuidv4(nextUuid), again |-> FALSE]
    /\ callPre' = Snapshot
    /\ callOut' = NoOutcome
    /\ callPc' = "saving"
    /\ UNCHANGED <<workspaceRoot, disk, rtVars, pushVars, importVars, remoteVars, extVars, loadPc, loadBuf, docs, applyPending>>

\* resolveComment(commentId) called: an unknown id returns at once, a known
\* one goes on to the write
CallResolveComment(commentId) ==
    /\ CallFree
    /\ resolveComment(commentId)
    /\ callOp' = [op |-> "resolveComment", id |-> commentId, again |-> Again("resolveComment", commentId)]
    /\ callPre' = Snapshot
    /\ callOut' = NoOutcome
    /\ callPc' = IF findComment(comments, commentId) = None THEN "returned" ELSE "saving"
    /\ UNCHANGED <<workspaceRoot, disk, rtVars, pushVars, importVars, remoteVars, extVars, loadPc, loadBuf, nextUuid, docs, applyPending>>

\* rejectSuggestion(commentId) called: resolveComment, and after it returned
\* the message 'Suggestion rejected'
CallRejectSuggestion(commentId) ==
    /\ CallFree
    /\ resolveComment(commentId)
    /\ callOp' = [op |-> "rejectSuggestion", id |-> commentId, again |-> Again("rejectSuggestion", commentId)]
    /\ callPre' = Snapshot
    /\ IF findComment(comments, commentId) = None
       THEN /\ callOut' = [NoOutcome EXCEPT !.messages = <<Message("info", "Suggestion rejected")>>]
            /\ callPc' = "returned"
       ELSE /\ callOut' = NoOutcome
            /\ callPc' = "saving"
    /\ UNCHANGED <<workspaceRoot, disk, rtVars, pushVars, importVars, remoteVars, extVars, loadPc, loadBuf, nextUuid, docs, applyPending>>

\* applySuggestion(commentId) called, up to its await of editor.edit
CallApplySuggestion(commentId, activeEditor) ==
    /\ CallFree
    /\ callOp' = [op |-> "applySuggestion", id |-> commentId, again |-> Again("applySuggestion", commentId),
                  editor |-> activeEditor]
    /\ callPre' = Snapshot
    /\ LET found == findComment(comments, commentId) IN
         IF found = None \/ found[1].suggestion = None
         THEN /\ callOut' = [NoOutcome EXCEPT !.messages = <<Message("error", "Suggestion not found")>>]
              /\ callPc' = "returned"
         ELSE IF activeEditor = None
         THEN /\ callOut' = [NoOutcome EXCEPT !.messages = <<Message("error", "No active editor")>>]
              /\ callPc' = "returned"
         ELSE /\ callOut' = NoOutcome
              /\ callPc' = "editing"
    /\ UNCHANGED <<workspaceRoot, disk, rtVars, pushVars, importVars, remoteVars, extVars, ctrlVars>>

CallEditDoneResolveAnyway(editOk) ==
    /\ callPc = "editing"
    /\ docs' = IF editOk
               THEN [docs EXCEPT ![callOp.editor[1]] =
                        ReplaceLine(docs[callOp.editor[1]], findComment(comments, callOp.id)[1])]
               ELSE docs
    /\ resolveComment(callOp.id)
    /\ callOut' = IF editOk
                  THEN [callOut EXCEPT !.edit = "ok"]
                  ELSE [callOut EXCEPT !.edit = "failed",
                                       !.messages = Append(@, Message("error", "Failed to apply suggestion"))]
    /\ callPc' = "saving"
    /\ UNCHANGED <<workspaceRoot, disk, rtVars, pushVars, importVars, remoteVars, extVars, callOp, callPre, callCount,
                   loadPc, loadBuf, nextUuid, applyPending>>

\* editor.edit settles: with success the line is replaced and resolveComment
\* runs up to the write, without it the failure message is shown
CallEditDone(editOk) ==
    /\ callPc = "editing"
    /\ IF editOk
       THEN /\ docs' = [docs EXCEPT ![callOp.editor[1]] =
                            ReplaceLine(docs[callOp.editor[1]], findComment(comments, callOp.id)[1])]
            /\ resolveComment(callOp.id)
            /\ callOut' = [callOut EXCEPT !.edit = "ok"]
            /\ callPc' = "saving"
       ELSE /\ UNCHANGED <<docs, comments, commentThreads, writes>>
            /\ callOut' = [callOut EXCEPT !.edit = "failed",
                                          !.messages = Append(@, Message("error", "Failed to apply suggestion"))]
            /\ callPc' = "returned"
    /\ UNCHANGED <<workspaceRoot, disk, rtVars, pushVars, importVars, remoteVars, extVars, callOp, callPre, callCount,
                   loadPc, loadBuf, nextUuid, applyPending>>

\* the message an operation shows after its save
AfterSaveMessages(op) ==
    IF op = "applySuggestion" THEN <<Message("info", "Suggestion applied successfully!")>>
    ELSE IF op = "rejectSuggestion" THEN <<Message("info", "Suggestion rejected")>>
    ELSE <<>>

\* the controller's saveComments() settles: storage.saveComments returned or
\* threw, a throw is caught and logged, and the operation runs to its end
CallSaveDone(writeOk) ==
    /\ callPc = "saving"
    /\ LET r == IF writes = <<>>
                THEN [outcome |-> "skipped", disk |-> disk]
                ELSE IF writeOk THEN [outcome |-> "saved", disk |-> DiskFile(writes[1])]
                ELSE [outcome |-> "threw", disk |-> disk]
       IN /\ disk' = r.disk
          /\ callOut' = [callOut EXCEPT !.write = r.outcome,
                                        !.messages = @ \o AfterSaveMessages(callOp.op)]
    /\ writes' = <<>>
    /\ callPc' = "returned"
    /\ UNCHANGED <<workspaceRoot, rtVars, pushVars, importVars, remoteVars, extVars, callOp, callPre, callCount,
                   comments, commentThreads, loadPc, loadBuf, nextUuid, docs, applyPending>>

CallNext ==
    \/ \E f \in Files : CallAddComment(f, 0, "b", "general", "")
    \/ \E f \in Files, l \in 0..(DocLines - 1) : CallAddSuggestion(f, l, "o", "s", "", "")
    \/ \E id \in CallIds : CallResolveComment(id)
    \/ \E id \in CallIds : CallRejectSuggestion(id)
    \/ \E id \in CallIds, e \in OptFiles : CallApplySuggestion(id, e)
    \/ \E editOk \in BOOLEAN : CallEditDone(editOk)
    \/ \E writeOk \in BOOLEAN : CallSaveDone(writeOk)

SpecCall == CallInit /\ [][CallNext]_vars

(***************************************************************************)
(* GitHubReviewSync: pushAllToGitHub, syncToGitHub, submitReview.          *)
(***************************************************************************)
MaxPushCalls == 2   \* calls of pushAllToGitHub in one run

\* JavaScript truthiness of an optional number: undefined and 0 are falsy
Truthy(opt) == opt # None /\ opt[1] # 0

\* getUnresolvedComments(): per file in Map order, the comments with !resolved
RECURSIVE getUnresolvedCommentsAll(_)
getUnresolvedCommentsAll(m) ==
    IF m = <<>> THEN <<>>
    ELSE Head(m).v \o getUnresolvedCommentsAll(Tail(m))

RECURSIVE getUnresolvedComments(_)
getUnresolvedComments(m) ==
    IF m = <<>> THEN <<>>
    ELSE SelectSeq(Head(m).v, LAMBDA c : ~c.resolved) \o getUnresolvedComments(Tail(m))

\* unresolvedComments.filter(c => !c.prCommentId)
UnsyncedCommentsNoFilter(m) == getUnresolvedComments(m)
UnsyncedComments(m) == SelectSeq(getUnresolvedComments(m), LAMBDA c : ~Truthy(c.prCommentId))

ReviewEvents == {"APPROVE", "COMMENT", "REQUEST_CHANGES"}
OptEvents == {None} \cup {Some(e) : e \in ReviewEvents}
OptPRs == {None, Some(42)}

\* the body createSuggestion and createComment hand to gh pr review --comment
RemoteBody(comment) ==
    IF comment.type = "suggestion" /\ comment.suggestion # None
    THEN [fence |-> Some(comment.suggestion[1].suggested), text |-> comment.body]
    ELSE [fence |-> None, text |-> comment.body]

\* the stores a pushAllToGitHub caller may find in the controller
PushA == MkComment(1, "f1", "You", "b", "general", 1, DateOf(1), FALSE, None, <<>>, None)
PushB == MkComment(2, "f1", "amy", "b", "general", 2, DateOf(2), FALSE, None, <<>>, Some(7))
PushC == MkComment(3, "f2", "You", "b", "question", 1, DateOf(3), TRUE, None, <<>>, None)
PushD == MkComment(4, "f2", "You", "", "suggestion", 2, DateOf(4), FALSE,
                   Some([original |-> "o", suggested |-> "s"]), <<>>, None)

PushStores ==
    { <<>>,
      <<[k |-> "f1", v |-> <<PushA, PushB>>], [k |-> "f2", v |-> <<PushC, PushD>>]>>,
      <<[k |-> "f2", v |-> <<PushD, PushC>>], [k |-> "f1", v |-> <<PushB, PushA>>]>> }

PushInit ==
    /\ ExtIdle
    /\ RTIdle
    /\ PushIdle
    /\ CallIdle
    /\ ImportIdle
    /\ RemoteIdle
    /\ workspaceRoot = TRUE
    /\ comments \in PushStores
    /\ disk = DiskFile(SerializeStorage(comments))
    /\ commentThreads = {}
    /\ loadPc = "done"
    /\ loadBuf = disk
    /\ writes = <<>>
    /\ nextUuid = MaxIds + 1
    /\ docs = [f \in Files |-> [i \in 1..DocLines |-> "o"]]
    /\ applyPending = None

\* pushAllToGitHub(prNumber, reviewEvent) up to its first await
PushAllCall(prNumber, reviewEvent) ==
    /\ pushPc \in {"idle", "done"}
    /\ pushCalls < MaxPushCalls
    /\ pushCalls' = pushCalls + 1
    /\ pushArgs' = [prNumber |-> prNumber, reviewEvent |-> reviewEvent]
    /\ pushSnapshot' = comments
    /\ pushQueue' = UnsyncedComments(comments)
    \* if (reviewEvent && prNumber)
    /\ pushPc' = IF reviewEvent # None /\ Truthy(prNumber) THEN "review" ELSE "loop"
    /\ pushInflight' = None
    /\ pushAttempted' = <<>>
    /\ pushCount' = 0
    /\ pushResult' = None
    /\ remoteLog' = <<>>
    /\ pushHistory' = pushHistory
    /\ UNCHANGED <<workspaceRoot, disk, rtVars, callVars, importVars, remoteVars, extVars, ctrlVars>>

\* submitReview(prNumber, comments, event): one gh pr review with the event
\* flag; throws without a workspace folder or when gh fails
SubmitReview(hasFolder, execOk) ==
    /\ pushPc = "review"
    /\ pushPc' = "done"
    /\ IF hasFolder /\ execOk
       THEN /\ remoteLog' = Append(remoteLog, [kind |-> "review", event |-> pushArgs.reviewEvent[1]])
            /\ pushResult' = Some(Len(pushQueue))
       ELSE /\ remoteLog' = remoteLog
            /\ pushResult' = Some(-1)
    /\ pushQueue' = <<>>
    /\ UNCHANGED <<workspaceRoot, disk, rtVars, callVars, importVars, remoteVars, extVars, ctrlVars, pushArgs, pushInflight,
                   pushAttempted, pushCount, pushSnapshot, pushCalls, pushHistory>>

\* the loop reaches the next comment: await this.syncToGitHub(comment, prNumber)
SyncStart ==
    /\ pushPc = "loop"
    /\ pushInflight = None
    /\ pushQueue # <<>>
    /\ pushInflight' = Some(Head(pushQueue))
    /\ pushQueue' = Tail(pushQueue)
    /\ pushAttempted' = Append(pushAttempted, Head(pushQueue).id)
    /\ UNCHANGED <<workspaceRoot, disk, rtVars, callVars, importVars, remoteVars, extVars, ctrlVars, pushPc, pushArgs, pushCount,
                   pushResult, remoteLog, pushSnapshot, pushCalls, pushHistory>>

\* syncToGitHub ends: pr = prNumber || await getCurrentPRNumber(); without a PR
\* it throws, else gh pr review --comment runs and may fail; the loop catches
SyncEndAbort(currentPR, execOk) ==
    /\ pushPc = "loop"
    /\ pushInflight # None
    /\ LET pr == IF Truthy(pushArgs.prNumber) THEN pushArgs.prNumber ELSE currentPR
           ok == Truthy(pr) /\ execOk
       IN /\ remoteLog' = IF ok
                          THEN Append(remoteLog, [kind |-> "comment", id |-> pushInflight[1].id,
                                                  body |-> RemoteBody(pushInflight[1])])
                          ELSE remoteLog
          /\ pushHistory' = pushHistory \cup {[id |-> pushInflight[1].id, ok |-> ok]}
          /\ pushCount' = IF ok THEN pushCount + 1 ELSE pushCount
          /\ pushPc' = IF ok THEN "loop" ELSE "done"
          /\ pushResult' = IF ok THEN pushResult ELSE Some(-1)
    /\ pushInflight' = None
    /\ UNCHANGED <<workspaceRoot, disk, rtVars, callVars, importVars, remoteVars, extVars, ctrlVars, pushArgs, pushQueue,
                   pushAttempted, pushSnapshot, pushCalls>>

\* the comment with its prCommentId set, wherever it is in the store
WithRemoteId(m, commentId, remoteId) ==
    [e \in 1..Len(m) |->
        [k |-> m[e].k,
         v |-> [n \in 1..Len(m[e].v) |->
                  IF m[e].v[n].id = commentId
                  THEN [m[e].v[n] EXCEPT !.prCommentId = Some(remoteId)]
                  ELSE m[e].v[n]]]]

SyncEndRecordId(currentPR, execOk) ==
    /\ pushPc = "loop"
    /\ pushInflight # None
    /\ LET pr == IF Truthy(pushArgs.prNumber) THEN pushArgs.prNumber ELSE currentPR
           ok == Truthy(pr) /\ execOk
       IN /\ remoteLog' = IF ok
                          THEN Append(remoteLog, [kind |-> "comment", id |-> pushInflight[1].id,
                                                  body |-> RemoteBody(pushInflight[1])])
                          ELSE remoteLog
          /\ pushHistory' = pushHistory \cup {[id |-> pushInflight[1].id, ok |-> ok]}
          /\ pushCount' = IF ok THEN pushCount + 1 ELSE pushCount
          /\ comments' = IF ok THEN WithRemoteId(comments, pushInflight[1].id, 9) ELSE comments
    /\ pushInflight' = None
    /\ UNCHANGED <<workspaceRoot, disk, rtVars, callVars, importVars, remoteVars, extVars, commentThreads, loadPc, loadBuf, writes,
                   nextUuid, docs, applyPending, pushPc, pushArgs, pushQueue,
                   pushAttempted, pushResult, pushSnapshot, pushCalls>>

SyncEnd(currentPR, execOk) ==
    /\ pushPc = "loop"
    /\ pushInflight # None
    /\ LET pr == IF Truthy(pushArgs.prNumber) THEN pushArgs.prNumber ELSE currentPR
           ok == Truthy(pr) /\ execOk
       IN /\ remoteLog' = IF ok
                          THEN Append(remoteLog, [kind |-> "comment", id |-> pushInflight[1].id,
                                                  body |-> RemoteBody(pushInflight[1])])
                          ELSE remoteLog
          /\ pushHistory' = pushHistory \cup {[id |-> pushInflight[1].id, ok |-> ok]}
          \* successCount++ is skipped when syncToGitHub threw
          /\ pushCount' = IF ok THEN pushCount + 1 ELSE pushCount
    /\ pushInflight' = None
    /\ UNCHANGED <<workspaceRoot, disk, rtVars, callVars, importVars, remoteVars, extVars, ctrlVars, pushPc, pushArgs, pushQueue,
                   pushAttempted, pushResult, pushSnapshot, pushCalls>>

\* the loop is over: return successCount
PushAllReturn ==
    /\ pushPc = "loop"
    /\ pushInflight = None
    /\ pushQueue = <<>>
    /\ pushPc' = "done"
    /\ pushResult' = Some(pushCount)
    /\ UNCHANGED <<workspaceRoot, disk, rtVars, callVars, importVars, remoteVars, extVars, ctrlVars, pushArgs, pushQueue, pushInflight,
                   pushAttempted, pushCount, remoteLog, pushSnapshot, pushCalls, pushHistory>>

PushStep ==
    \/ \E pr \in OptPRs, ev \in OptEvents : PushAllCall(pr, ev)
    \/ \E hasFolder \in BOOLEAN, execOk \in BOOLEAN : SubmitReview(hasFolder, execOk)
    \/ SyncStart
    \/ \E currentPR \in OptPRs, execOk \in BOOLEAN : SyncEnd(currentPR, execOk)
    \/ PushAllReturn

PushNext ==
    \/ PushStep
    \/ \E id \in {PushA.id, PushD.id} : ResolveComment(id)
    \/ \E i \in 1..MaxInflight, writeOk \in BOOLEAN : WriteDone(i, writeOk)

SpecPush == PushInit /\ [][PushNext]_vars

(***************************************************************************)
(* GitHubReviewSync: syncFromGitHub, fetchPRComments,                      *)
(* convertToReviewComment.  A comment body is the sequence of its pieces:  *)
(* a fence (three backticks), the word suggestion, a newline, other text.   *)
(***************************************************************************)
GhMaxLen == 2   \* review comments on the pull request

Fence == "fence"   \* three backticks
Nl == "nl"         \* a newline

\* pat is in body at position i
Starts(body, i, pat) ==
    /\ i >= 1
    /\ i + Len(pat) - 1 <= Len(body)
    /\ SubSeq(body, i, i + Len(pat) - 1) = pat

\* a leftmost, then shortest, match of  open (.*?) close  in body: <<>> or
\* <<[from, group, to]>> with the match at from..to
LazyMatch(body, open, close) ==
    LET hits == {i \in 1..Len(body) :
                    /\ Starts(body, i, open)
                    /\ \E j \in (i + Len(open))..Len(body) : Starts(body, j, close)}
    IN IF hits = {} THEN None
       ELSE LET i == Min(hits)
                j == Min({x \in (i + Len(open))..Len(body) : Starts(body, x, close)})
            IN Some([from |-> i, group |-> SubSeq(body, i + Len(open), j - 1),
                     to |-> j + Len(close) - 1])

\* body.match(/<fence>suggestion\n(.*?)\n<fence>/s)
SuggestionMatch(body) == LazyMatch(body, <<Fence, "suggestion", Nl>>, <<Nl, Fence>>)

\* body.replace(/<fence>suggestion\n.*?\n<fence>\n\n/s, ""): the first match is cut out
WithoutSuggestion(body) ==
    LET hit == LazyMatch(body, <<Fence, "suggestion", Nl>>, <<Nl, Fence, Nl, Nl>>)
    IN IF hit = None THEN body
       ELSE SubSeq(body, 1, hit[1].from - 1) \o SubSeq(body, hit[1].to + 1, Len(body))

\* the template string gh-${ghComment.id}
GhLocalId(remoteId) == [prefix |-> "gh-", id |-> remoteId]

convertToReviewCommentNoRemoteId(ghComment) ==
    LET suggestionMatch == SuggestionMatch(ghComment.body)
        suggestion == IF suggestionMatch # None
                      THEN Some([original |-> "", suggested |-> suggestionMatch[1].group])
                      ELSE None
        bodyWithoutSuggestion == IF suggestion # None
                                 THEN WithoutSuggestion(ghComment.body)
                                 ELSE ghComment.body
    IN MkComment(GhLocalId(ghComment.id), ghComment.path, ghComment.user.login,
                 bodyWithoutSuggestion,
                 IF suggestion # None THEN "suggestion" ELSE "general",
                 ghComment.line, NewDate(ghComment.created_at), FALSE, suggestion, <<>>,
                 None)

\* convertToReviewComment(ghComment)
convertToReviewComment(ghComment) ==
    LET suggestionMatch == SuggestionMatch(ghComment.body)
        suggestion == IF suggestionMatch # None
                      THEN Some([original |-> "", suggested |-> suggestionMatch[1].group])
                      ELSE None
        bodyWithoutSuggestion == IF suggestion # None
                                 THEN WithoutSuggestion(ghComment.body)
                                 ELSE ghComment.body
    IN MkComment(GhLocalId(ghComment.id), ghComment.path, ghComment.user.login,
                 bodyWithoutSuggestion,
                 IF suggestion # None THEN "suggestion" ELSE "general",
                 ghComment.line, NewDate(ghComment.created_at), FALSE, suggestion, <<>>,
                 Some(ghComment.id))

\* bodies of review comments: plain text, the body createSuggestion writes,
\* a suggestion block that ends the body, an empty suggestion block, a block
\* followed by one newline, an empty body, a fence that is not a suggestion
GhBodies ==
    { <<"a">>,
      <<Fence, "suggestion", Nl, "x", Nl, Fence, Nl, Nl, "a">>,
      <<"a", Nl, Fence, "suggestion", Nl, "x", Nl, Fence>>,
      <<Fence, "suggestion", Nl, Fence>>,
      <<Fence, "suggestion", Nl, "x", Nl, Fence, Nl, "a">>,
      <<>>,
      <<Fence, Nl, "x", Nl, Fence>> }

GhComments ==
    {[id |-> i, path |-> "f1", line |-> 1, body |-> b, user |-> [login |-> "amy"],
      created_at |-> ToISOString(DateOf(i))] : i \in {7, 8}, b \in GhBodies}

ImportInit ==
    /\ ExtIdle
    /\ RTIdle
    /\ PushIdle
    /\ CallIdle
    /\ workspaceRoot = TRUE
    /\ comments \in PushStores
    /\ disk = DiskFile(SerializeStorage(comments))
    /\ commentThreads = {}
    /\ loadPc = "done"
    /\ loadBuf = disk
    /\ writes = <<>>
    /\ nextUuid = MaxIds + 1
    /\ docs = [f \in Files |-> [i \in 1..DocLines |-> "o"]]
    /\ applyPending = None
    /\ syncPc = "idle"
    /\ ghRemote \in UNION {[1..n -> GhComments] : n \in 0..GhMaxLen}
    /\ ghFetched = <<>>
    /\ syncResult = None
    /\ ghExec = "none"
    /\ RemoteIdle

\* fetchPRComments(prNumber): the parsed answer of gh api, [] when it fails
fetchPRComments(remote, execOk) == IF execOk THEN remote ELSE <<>>

\* syncFromGitHub(prNumber): comments.map(c => this.convertToReviewComment(c))
SyncFromGitHub(execOk) ==
    /\ syncPc = "idle"
    /\ ghFetched' = fetchPRComments(ghRemote, execOk)
    /\ syncResult' = Some([i \in 1..Len(ghFetched') |-> convertToReviewComment(ghFetched'[i])])
    /\ syncPc' = "returned"
    /\ ghExec' = IF execOk THEN "ok" ELSE "failed"
    /\ UNCHANGED <<workspaceRoot, disk, rtVars, ctrlVars, pushVars, callVars, remoteVars, extVars, ghRemote>>

ImportNext == \E execOk \in BOOLEAN : SyncFromGitHub(execOk)

SpecImport == ImportInit /\ [][ImportNext]_vars

(***************************************************************************)
(* PRInfoService and the gh command line.  Every remote operation is a gh  *)
(* (or git) command run through exec; the machine and the remote answer    *)
(* it from gh, which stays the same during a behaviour.  A command is      *)
(* recorded with the repository of its --repo option (<<>> when the        *)
(* option is absent and gh uses the repository of the working directory).  *)
(***************************************************************************)
Origin == "origin"
Upstream == "upstream"
Repos == {Origin, Upstream}
PRNumber == 7
OtherPRNumber == 8

Cmd(name, repo, pr, arg) == [name |-> name, repo |-> repo, pr |-> pr, arg |-> arg]

\* the repository a command is answered by
Target(c) == IF c.repo = None THEN Origin ELSE c.repo[1]

GitCommands == {"git rev-parse", "git checkout", "git pull"}
SetupCommands == {"gh --version", "gh auth status"}

\* does exec(command) resolve (exit code 0) on machine and remote g
ExecOk(g, c) ==
    CASE c.name = "git rev-parse" -> g.branch
      [] c.name \in {"git checkout", "git pull"} -> c.name \notin g.down
      [] c.name = "gh --version" -> g.installed
      [] c.name = "gh auth status" -> g.installed /\ g.authenticated
      [] c.name = "gh pr view number" ->
            /\ g.installed /\ g.authenticated /\ c.name \notin g.down
            /\ g.current[Target(c)] # None
      [] OTHER -> g.installed /\ g.authenticated /\ c.name \notin g.down

\* what a call gives its caller, with the commands it ran
Returned(v, log) == [threw |-> FALSE, value |-> v, error |-> None, log |-> log]
Thrown(c, log) == [threw |-> TRUE, value |-> None, error |-> Some(c), log |-> log]

\* isGHInstalled(): gh --version, false when it fails
isGHInstalled(g) ==
    LET c == Cmd("gh --version", None, None, None)
    IN  Returned(ExecOk(g, c), <<c>>)

\* isGHAuthenticated(): gh auth status, false when it fails
isGHAuthenticated(g) ==
    LET c == Cmd("gh auth status", None, None, None)
    IN  Returned(ExecOk(g, c), <<c>>)

\* getParentRepo(): owner/name of the parent when gh repo view says isFork
\* and gives a parent, null otherwise and when the command fails
getParentRepo(g) ==
    LET c == Cmd("gh repo view", None, None, None)
    IN  Returned(IF ExecOk(g, c) THEN g.parent ELSE None, <<c>>)

getTargetRepoNever(g) == Returned(None, getParentRepo(g).log)
\* getTargetRepo(): the parent repository of a fork, null otherwise
getTargetRepo(g) == getParentRepo(g)

\* if (!targetRepo) targetRepo = await this.getTargetRepo() || undefined
ResolveTarget(g, targetRepo) ==
    IF targetRepo # None THEN Returned(targetRepo, <<>>) ELSE getTargetRepo(g)

\* the pull request as the remote repository has it
RemoteTitle == <<"A", " ", "a">>
RemoteInfo(repo, prNumber) == [number |-> prNumber, title |-> RemoteTitle, repo |-> repo]

\* _normalizeStatus(status)
NormalizeStatus(status) ==
    CASE status = "ADDED" -> "added"
      [] status = "MODIFIED" -> "modified"
      [] status = "CHANGED" -> "modified"
      [] status = "DELETED" -> "removed"
      [] status = "REMOVED" -> "removed"
      [] status = "RENAMED" -> "renamed"
      [] OTHER -> "modified"

\* x || 0 on an optional number
OrZero(x) == IF x = None THEN 0 ELSE x[1]

\* the PRFileChange getPRFiles makes of one entry of data.files
FileChange(file) ==
    [path |-> file.path,
     status |-> NormalizeStatus(IF file.changeType = None THEN "modified" ELSE file.changeType[1]),
     additions |-> OrZero(file.additions),
     deletions |-> OrZero(file.deletions),
     changes |-> OrZero(file.additions) + OrZero(file.deletions)]

\* the PRCommit getPRCommits makes of one entry of data.commits
Commit(c) == [sha |-> c.oid, message |-> c.messageHeadline]

\* getPRInfo(prNumber, targetRepo): logs and rethrows what exec throws
getPRInfo(g, prNumber, targetRepo) ==
    LET t == ResolveTarget(g, targetRepo)
        c == Cmd("gh pr view info", t.value, Some(prNumber), None)
    IN  IF ExecOk(g, c)
        THEN Returned(Some(RemoteInfo(Target(c), prNumber)), t.log \o <<c>>)
        ELSE Thrown(c, t.log \o <<c>>)

getPRFilesRethrow(g, prNumber, targetRepo) ==
    LET t == ResolveTarget(g, targetRepo)
        c == Cmd("gh pr view files", t.value, Some(prNumber), None)
    IN  IF ExecOk(g, c)
        THEN Returned([i \in 1..Len(g.files) |-> FileChange(g.files[i])], t.log \o <<c>>)
        ELSE Thrown(c, t.log \o <<c>>)
\* getPRFiles(prNumber, targetRepo): [] when exec or the parse throws
getPRFiles(g, prNumber, targetRepo) ==
    LET t == ResolveTarget(g, targetRepo)
        c == Cmd("gh pr view files", t.value, Some(prNumber), None)
    IN  IF ExecOk(g, c)
        THEN Returned([i \in 1..Len(g.files) |-> FileChange(g.files[i])], t.log \o <<c>>)
        ELSE Returned(<<>>, t.log \o <<c>>)

\* getPRCommits(prNumber, targetRepo): [] when exec or the parse throws
getPRCommits(g, prNumber, targetRepo) ==
    LET t == ResolveTarget(g, targetRepo)
        c == Cmd("gh pr view commits", t.value, Some(prNumber), None)
    IN  IF ExecOk(g, c)
        THEN Returned([i \in 1..Len(g.commits) |-> Commit(g.commits[i])], t.log \o <<c>>)
        ELSE Returned(<<>>, t.log \o <<c>>)

\* the PRReviewComment getPRComments makes of one remote comment
ReviewCommentOf(c) == [id |-> c.id, path |-> c.path, line |-> c.line, body |-> c.body]

\* getPRComments(prNumber, targetRepo): [] when exec or the parse throws
getPRComments(g, prNumber, targetRepo) ==
    LET t == ResolveTarget(g, targetRepo)
        c == Cmd("gh api comments", t.value, Some(prNumber), None)
    IN  IF ExecOk(g, c)
        THEN Returned([i \in 1..Len(g.comments) |-> ReviewCommentOf(g.comments[i])], t.log \o <<c>>)
        ELSE Returned(<<>>, t.log \o <<c>>)

RECURSIVE SumOf(_, _)
\* files.reduce((sum, f) => sum + f.additions, 0), for the field given
SumOf(q, field) == IF q = <<>> THEN 0 ELSE q[1][field] + SumOf(Tail(q), field)

\* getPRDetails(prNumber): the three fetches together (their commands are
\* recorded call by call), null when one of them throws or info is null
getPRDetails(g, prNumber) ==
    LET t == getTargetRepo(g)
        info == getPRInfo(g, prNumber, t.value)
        files == getPRFiles(g, prNumber, t.value)
        commits == getPRCommits(g, prNumber, t.value)
        log == t.log \o info.log \o files.log \o commits.log
    IN  IF info.threw \/ files.threw \/ commits.threw \/ info.value = None
        THEN Returned(None, log)
        ELSE Returned(Some(info.value[1] @@
                           [files |-> files.value,
                            commits |-> commits.value,
                            stats |-> [totalFiles |-> Len(files.value),
                                       totalAdditions |-> SumOf(files.value, "additions"),
                                       totalDeletions |-> SumOf(files.value, "deletions"),
                                       totalCommits |-> Len(commits.value)]]), log)

\* the number a gh pr view --json number -q .number prints is parsed with
\* parseInt; the command fails when the branch has no pull request there
ViewNumber(g, repo) ==
    LET c == Cmd("gh pr view number", repo, None, None)
    IN  Returned(IF ExecOk(g, c) THEN g.current[Target(c)] ELSE None, <<c>>)

getCurrentPRNumberNoParent(g) == ViewNumber(g, None)
\* getCurrentPRNumber(): the current repository first, then the parent of
\* a fork; null when neither has a pull request for the branch
getCurrentPRNumber(g) ==
    LET here == ViewNumber(g, None)
        parent == getParentRepo(g)
        there == ViewNumber(g, parent.value)
    IN  IF here.value # None THEN here
        ELSE IF parent.value = None THEN Returned(None, here.log \o parent.log)
        ELSE Returned(there.value, here.log \o parent.log \o there.log)

(***************************************************************************)
(* Branch names.  A title is a sequence of characters: "a" stands for a    *)
(* lower-case letter, "A" for an upper-case one, "1" for a digit, "han"    *)
(* for a Hangul syllable, " " and "-" for characters outside               *)
(* [a-z0-9 and Hangul].                                                           *)
(***************************************************************************)
SlugMax == 50
TitleChars == {"a", "A", "1", "han", " ", "-"}
SlugChars == {"a", "1", "han"}

\* prTitle.toLowerCase()
ToLowerCase(t) == [i \in 1..Len(t) |-> IF t[i] = "A" THEN "a" ELSE t[i]]

RECURSIVE SkipOthers(_)
\* the title after its leading run of characters outside the slug set
SkipOthers(t) ==
    IF t = <<>> \/ t[1] \in SlugChars THEN t ELSE SkipOthers(Tail(t))

RECURSIVE ReplaceOthers(_)
\* .replace(/[^a-z0-9 Hangul]+/g, '-')
ReplaceOthers(t) ==
    IF t = <<>> THEN <<>>
    ELSE IF t[1] \in SlugChars THEN <<t[1]>> \o ReplaceOthers(Tail(t))
    ELSE <<"-">> \o ReplaceOthers(SkipOthers(t))

RECURSIVE DropLeadingHyphens(_)
DropLeadingHyphens(t) ==
    IF t # <<>> /\ t[1] = "-" THEN DropLeadingHyphens(Tail(t)) ELSE t

RECURSIVE DropTrailingHyphens(_)
DropTrailingHyphens(t) ==
    IF t # <<>> /\ t[Len(t)] = "-" THEN DropTrailingHyphens(SubSeq(t, 1, Len(t) - 1)) ELSE t

\* .replace(/^-+|-+$/g, '')
TrimHyphens(t) == DropTrailingHyphens(DropLeadingHyphens(t))

RECURSIVE CollapseHyphens(_)
\* .replace(/-+/g, '-')
CollapseHyphens(t) ==
    IF t = <<>> THEN <<>>
    ELSE IF t[1] = "-" THEN <<"-">> \o CollapseHyphens(DropLeadingHyphens(t))
    ELSE <<t[1]>> \o CollapseHyphens(Tail(t))

\* .slice(0, n)
Slice(t, n) == SubSeq(t, 1, IF Len(t) < n THEN Len(t) ELSE n)

\* titleToSlug(title): lower-case, replace, trim, collapse, then cut
titleToSlug(title) ==
    Slice(CollapseHyphens(TrimHyphens(ReplaceOthers(ToLowerCase(title)))), SlugMax)

\* pr-${prNumber}/${titleSlug}
BranchName(prNumber, title) == [prefix |-> "pr-", number |-> prNumber, slug |-> titleToSlug(title)]

\* checkoutPR(prNumber, prTitle, targetRepo): checkout and pull when the
\* local branch exists, gh pr checkout -b otherwise; rethrows what fails
checkoutPR(g, prNumber, prTitle, targetRepo) ==
    LET t == ResolveTarget(g, targetRepo)
        branch == Some(BranchName(prNumber, prTitle))
        verify == Cmd("git rev-parse", None, None, branch)
        checkout == Cmd("git checkout", None, None, branch)
        pull == Cmd("git pull", None, None, None)
        create == Cmd("gh pr checkout", t.value, Some(prNumber), branch)
        log == t.log \o <<verify>>
    IN  IF ExecOk(g, verify)
        THEN IF ~ExecOk(g, checkout) THEN Thrown(checkout, log \o <<checkout>>)
             ELSE IF ~ExecOk(g, pull) THEN Thrown(pull, log \o <<checkout, pull>>)
             ELSE Returned(None, log \o <<checkout, pull>>)
        ELSE IF ~ExecOk(g, create) THEN Thrown(create, log \o <<create>>)
             ELSE Returned(None, log \o <<create>>)

(***************************************************************************)
(* Reviewable files.  A path is a sequence of pieces: "/" and "_", a       *)
(* locale code in lower or upper case, an extension, other text.           *)
(***************************************************************************)
\* path.toLowerCase()
LowerPiece(p) ==
    CASE p = "KO" -> "ko"
      [] p = ".MD" -> ".md"
      [] OTHER -> p
PathToLowerCase(path) == [i \in 1..Len(path) |-> LowerPiece(path[i])]

\* path.includes(part)
Includes(path, part) ==
    \E i \in 1..Len(path) :
        /\ i + Len(part) - 1 <= Len(path)
        /\ SubSeq(path, i, i + Len(part) - 1) = part

\* path.match(new RegExp of [/_], lang, [/_])
MatchesDelimited(path, lang) ==
    \E i \in 1..Len(path) :
        /\ i + 2 <= Len(path)
        /\ path[i] \in {"/", "_"}
        /\ path[i + 1] = lang
        /\ path[i + 2] \in {"/", "_"}

\* the test of filterTranslationFiles on one file
IsTranslationFile(file, lang) ==
    LET path == PathToLowerCase(file.path)
    IN  \/ Includes(path, <<"content", "/", lang, "/">>)
        \/ Includes(path, <<"i18n", "/", lang, "/">>)
        \/ Includes(path, <<"/", lang, "/">>)
        \/ MatchesDelimited(path, lang)

\* filterTranslationFiles(files, lang)
filterTranslationFiles(files, lang) == SelectSeq(files, LAMBDA f : IsTranslationFile(f, lang))

\* filterMarkdownFiles(files): file.path.endsWith('.md')
filterMarkdownFiles(files) == SelectSeq(files, LAMBDA f : f.path # <<>> /\ f.path[Len(f.path)] = ".md")

\* getReviewableFiles(files, lang)
getReviewableFiles(files, lang) == filterMarkdownFiles(filterTranslationFiles(files, lang))

(***************************************************************************)
(* GitHubReviewSync called directly: getCurrentPRNumber and syncToGitHub.  *)
(***************************************************************************)
\* GitHubReviewSync.getCurrentPRNumber(): one gh pr view, null when it fails
SyncGetCurrentPRNumber(g) == ViewNumber(g, None)

\* createComment / createSuggestion: one gh pr review --comment, rethrown
\* when it fails
CreateRemote(g, pr, comment, log) ==
    LET c == Cmd("gh pr review", None, Some(pr), Some(RemoteBody(comment)))
    IN  IF ExecOk(g, c) THEN Returned(None, log \o <<c>>) ELSE Thrown(c, log \o <<c>>)

\* syncToGitHub(comment, prNumber): pr = prNumber || await getCurrentPRNumber();
\* throws No PR found for current branch when there is none
syncToGitHub(g, comment, prNumber) ==
    LET found == IF Truthy(prNumber) THEN Returned(prNumber, <<>>) ELSE SyncGetCurrentPRNumber(g)
    IN  IF ~Truthy(found.value)
        THEN [threw |-> TRUE, value |-> None, error |-> Some("No PR found for current branch"),
              log |-> found.log]
        ELSE CreateRemote(g, found.value[1], comment, found.log)

RECURSIVE PushLoop(_, _, _)
\* for (const comment of unsyncedComments): syncToGitHub, counted unless it throws
PushLoop(g, q, prNumber) ==
    IF q = <<>> THEN [count |-> 0, log |-> <<>>]
    ELSE LET r == syncToGitHub(g, Head(q), prNumber)
             rest == PushLoop(g, Tail(q), prNumber)
         IN  [count |-> (IF r.threw THEN 0 ELSE 1) + rest.count, log |-> r.log \o rest.log]

\* pushAllToGitHub(prNumber, reviewEvent) from call to return: submitReview
\* with a verdict and a PR number, the loop otherwise
pushAllToGitHub(g, m, prNumber, reviewEvent) ==
    LET unsynced == UnsyncedComments(m)
        review == Cmd("gh pr review", None, prNumber, reviewEvent)
        loop == PushLoop(g, unsynced, prNumber)
    IN  IF reviewEvent # None /\ Truthy(prNumber)
        THEN IF ExecOk(g, review) THEN Returned(Len(unsynced), <<review>>)
             ELSE Thrown(review, <<review>>)
        ELSE Returned(loop.count, loop.log)

\* syncFromGitHub(prNumber) of GitHubReviewSync, with the command it runs
syncFromGitHub(g, prNumber) ==
    LET c == Cmd("gh api comments", None, Some(prNumber), None)
        fetched == fetchPRComments(g.comments, ExecOk(g, c))
    IN  Returned([i \in 1..Len(fetched) |-> convertToReviewComment(fetched[i])], <<c>>)

(***************************************************************************)
(* The machine and the remote a behaviour runs on.                          *)
(***************************************************************************)
RemoteFileKo ==
    [path |-> <<"content", "/", "ko", "/", "x", ".md">>, additions |-> Some(2),
     deletions |-> None, changeType |-> Some("ADDED")]
RemoteFileEn ==
    [path |-> <<"content", "/", "en", "/", "x", ".md">>, additions |-> Some(1),
     deletions |-> Some(1), changeType |-> None]
RemoteCommit(i) == [oid |-> i, messageHeadline |-> "m"]
RemoteComment(i, path) ==
    [id |-> i, path |-> path, line |-> 1, body |-> <<"a">>, user |-> [login |-> "amy"],
     created_at |-> ToISOString(DateOf(i))]

\* what the pull request holds: nothing, one of each, two of each (the
\* first comment on a file the checkout does not have)
RemoteData ==
    { [files |-> <<>>, commits |-> <<>>, comments |-> <<>>],
      [files |-> <<RemoteFileKo>>, commits |-> <<RemoteCommit(1)>>,
       comments |-> <<RemoteComment(7, "f1")>>],
      [files |-> <<RemoteFileEn, RemoteFileKo>>, commits |-> <<RemoteCommit(1), RemoteCommit(2)>>,
       comments |-> <<RemoteComment(8, "gone"), RemoteComment(7, "f1")>>] }

\* the gh commands that may fail on a machine where gh is installed and
\* logged in: none, or one of them
Failing ==
    {{}} \cup {{n} : n \in {"gh repo view", "gh pr view info", "gh pr view files",
                           "gh pr view commits", "gh pr view number", "gh api comments",
                           "gh pr checkout", "gh pr review", "git pull"}}

Machine(installed, authenticated, parent, here, there, down, branch, data) ==
    [installed |-> installed, authenticated |-> authenticated, parent |-> parent,
     current |-> [r \in Repos |-> IF r = Origin THEN here ELSE there],
     down |-> down, branch |-> branch,
     files |-> data.files, commits |-> data.commits, comments |-> data.comments]

OptParents == {None, Some(Upstream)}

\* gh missing, gh not logged in, and every machine with gh ready
Machines ==
    {Machine(FALSE, FALSE, None, None, None, {}, FALSE, d) : d \in {x \in RemoteData : x.files = <<>>}}
    \cup {Machine(TRUE, FALSE, p, Some(PRNumber), None, {}, FALSE, d) :
              p \in OptParents, d \in {x \in RemoteData : Len(x.files) = 1}}
    \cup UNION {UNION {{Machine(TRUE, TRUE, p, here, there, down, branch, d) :
                           p \in OptParents, here \in {None, Some(PRNumber)}} :
                       there \in {None, Some(OtherPRNumber)}, down \in Failing} :
                branch \in BOOLEAN, d \in RemoteData}

PriorQuestion ==
    MkComment(103, "f1", "You", "b", "question", 2, DateOf(0), FALSE, None, <<>>, None)

\* the controller's store when a handler is called
FlowStores ==
    { <<>>,
      <<[k |-> "f2", v |-> <<PriorComment>>], [k |-> "f1", v |-> <<PriorSuggestion, PriorQuestion>>]>> }

RemoteInit ==
    /\ ExtIdle
    /\ RTIdle
    /\ PushIdle
    /\ CallIdle
    /\ ImportIdle
    /\ workspaceRoot = TRUE
    /\ comments = <<>>
    /\ disk = DiskFile(SerializeStorage(comments))
    /\ commentThreads = {}
    /\ loadPc = "done"
    /\ loadBuf = disk
    /\ writes = <<>>
    /\ nextUuid = 1
    /\ docs = [f \in Files |-> [i \in 1..DocLines |-> "o"]]
    /\ applyPending = None
    /\ gh \in Machines
    /\ prLog = <<>>
    /\ prCall = [op |-> "none"]
    /\ prResult = <<>>

(***************************************************************************)
(* The callers: handleFetchPRInfo, handleSyncFromGitHub and                 *)
(* handlePushToGitHub of ReviewCommandManager, and the fetchPRInfo command  *)
(* of registerPRCommands.  Each is run from call to return.                 *)
(***************************************************************************)
\* what a handler did: the messages it showed, the commands it ran, the
\* review comments it handed to syncReviewComments
Flow(messages, log, synced) ==
    [threw |-> FALSE, value |-> None, error |-> None, messages |-> messages, log |-> log,
     synced |-> synced]

\* what the user types in showInputBox: nothing, a number, something else
Inputs == {"", "7", "x"}
\* parseInt(input): <<>> stands for NaN
parseInt(input) == IF input = "7" THEN Some(PRNumber) ELSE None

InstallGuidance == "GitHub CLI (gh) is not installed: Install Guide"
LoginGuidance == "GitHub CLI is not authenticated: Login Guide"

\* the message after the checkout block of handleFetchPRInfo: none when a
\* file is offered to pick
PickMessages(translationFiles) ==
    IF translationFiles = <<>> THEN <<"No translation files found">>
    ELSE IF SelectSeq(translationFiles, LAMBDA f : f.status # "removed") = <<>>
    THEN <<"All translation files were removed">>
    ELSE <<>>

\* handleFetchPRInfo(prNumber)
handleFetchPRInfo(g, prNumber, input) ==
    LET installed == isGHInstalled(g)
        authenticated == isGHAuthenticated(g)
        checks == installed.log \o authenticated.log
        pr == IF Truthy(prNumber) THEN prNumber ELSE parseInt(input)
        details == getPRDetails(g, pr[1])
        translationFiles == getReviewableFiles(details.value[1].files, "ko")
        checkout == checkoutPR(g, pr[1], details.value[1].title, None)
        fetched == getPRComments(g, pr[1], None)
    IN  IF ~installed.value THEN Flow(<<InstallGuidance>>, installed.log, <<>>)
        ELSE IF ~authenticated.value THEN Flow(<<LoginGuidance>>, checks, <<>>)
        ELSE IF pr = None THEN Flow(<<>>, checks, <<>>)
        ELSE IF details.value = None
        THEN Flow(<<"Failed to fetch PR">>, checks \o details.log, <<>>)
        ELSE IF checkout.threw
        THEN Flow(<<"Failed to checkout PR">> \o PickMessages(translationFiles),
                  checks \o details.log \o checkout.log, <<>>)
        ELSE Flow(<<"Checked out successfully">> \o PickMessages(translationFiles),
                  checks \o details.log \o checkout.log \o fetched.log, fetched.value)

\* handleSyncFromGitHub()
handleSyncFromGitHub(g, input) ==
    LET current == SyncGetCurrentPRNumber(g)
        prNumber == IF input # "" THEN parseInt(input) ELSE current.value
        before == IF input # "" THEN <<>> ELSE current.log
        synced == syncFromGitHub(g, prNumber[1])
    IN  IF input # "" /\ prNumber = None THEN Flow(<<"Invalid PR number">>, <<>>, <<>>)
        ELSE IF ~Truthy(prNumber) THEN Flow(<<"No PR found for current branch">>, before, <<>>)
        ELSE Flow(<<"Synced comments from PR">>, before \o synced.log, <<>>)

\* handlePushToGitHub(reviewEvent)
handlePushToGitHub(g, m, reviewEvent) ==
    LET current == SyncGetCurrentPRNumber(g)
        pushed == pushAllToGitHub(g, m, current.value, reviewEvent)
    IN  IF ~Truthy(current.value) THEN Flow(<<"No PR found for current branch">>, current.log, <<>>)
        ELSE IF pushed.threw THEN Flow(<<"Failed to push to GitHub">>, current.log \o pushed.log, <<>>)
        ELSE Flow(<<"Pushed comments to PR">>, current.log \o pushed.log, <<>>)

\* the kubelingoassist.fetchPRInfo command of registerPRCommands
fetchPRInfoCommand(g, prNumber, input) ==
    LET pr == IF Truthy(prNumber) THEN prNumber ELSE parseInt(input)
        details == getPRDetails(g, pr[1])
        translationFiles == getReviewableFiles(details.value[1].files, "ko")
        checkout == checkoutPR(g, pr[1], details.value[1].title, None)
    IN  IF pr = None THEN Flow(<<>>, <<>>, <<>>)
        ELSE IF details.value = None
        THEN Flow(<<"Fetching PR", "Failed to fetch PR">>, details.log, <<>>)
        ELSE IF translationFiles = <<>>
        THEN Flow(<<"Fetching PR", "No translation files found in this PR">>, details.log, <<>>)
        ELSE IF checkout.threw
        THEN Flow(<<"Fetching PR", "Checking out PR", "Failed to fetch PR info">>,
                  details.log \o checkout.log, <<>>)
        ELSE Flow(<<"Fetching PR", "Checking out PR", "Found translation files">>,
                  details.log \o checkout.log, <<>>)

RECURSIVE syncReviewComments(_, _, _)
\* syncReviewComments(comments): addComment for every comment whose file is
\* in the workspace; gives the store, the next uuid and the new threads
syncReviewComments(m, q, next) ==
    IF q = <<>> THEN [comments |-> m, next |-> next, threads |-> {}]
    ELSE IF Head(q).path \notin Files THEN syncReviewComments(m, Tail(q), next)
    ELSE LET startLine == IF Head(q).line >= 1 THEN Head(q).line - 1 ELSE 0
             c == MkComment(uuidv4(next), Head(q).path, getCurrentUser(""),
                            <<"GitHub Review", Nl, Nl>> \o Head(q).body, "general",
                            startLine + 1, DateOf(next), FALSE, None, <<>>, None)
             rest == syncReviewComments(addCommentToStore(m, Head(q).path, c), Tail(q), next + 1)
         IN  [rest EXCEPT !.threads = @ \cup {c.id}]

(***************************************************************************)
(* The PR operations as steps: each runs one call from start to end and     *)
(* leaves its commands in prLog and its outcome in prResult.                *)
(***************************************************************************)
Direct(r) ==
    /\ prLog' = r.log
    /\ prResult' = [threw |-> r.threw, value |-> r.value, error |-> r.error, messages |-> <<>>]
    /\ UNCHANGED <<workspaceRoot, disk, rtVars, ctrlVars, pushVars, callVars, importVars, extVars, gh>>

Handled(r) ==
    /\ prLog' = r.log
    /\ prResult' = [threw |-> r.threw, value |-> r.value, error |-> r.error, messages |-> r.messages]
    /\ UNCHANGED <<rtVars, pushVars, callVars, importVars, extVars, gh>>

GetPRInfo(prNumber, targetRepo) ==
    /\ prCall' = [op |-> "getPRInfo", prNumber |-> prNumber, targetRepo |-> targetRepo]
    /\ Direct(getPRInfo(gh, prNumber, targetRepo))

GetPRFiles(prNumber, targetRepo) ==
    /\ prCall' = [op |-> "getPRFiles", prNumber |-> prNumber, targetRepo |-> targetRepo]
    /\ Direct(getPRFiles(gh, prNumber, targetRepo))

GetPRCommits(prNumber, targetRepo) ==
    /\ prCall' = [op |-> "getPRCommits", prNumber |-> prNumber, targetRepo |-> targetRepo]
    /\ Direct(getPRCommits(gh, prNumber, targetRepo))

GetPRComments(prNumber, targetRepo) ==
    /\ prCall' = [op |-> "getPRComments", prNumber |-> prNumber, targetRepo |-> targetRepo]
    /\ Direct(getPRComments(gh, prNumber, targetRepo))

GetPRDetails(prNumber) ==
    /\ prCall' = [op |-> "getPRDetails", prNumber |-> prNumber]
    /\ Direct(getPRDetails(gh, prNumber))

GetCurrentPRNumber ==
    /\ prCall' = [op |-> "PRInfoService.getCurrentPRNumber"]
    /\ Direct(getCurrentPRNumber(gh))

SyncGetCurrentPRNumberCall ==
    /\ prCall' = [op |-> "GitHubReviewSync.getCurrentPRNumber"]
    /\ Direct(SyncGetCurrentPRNumber(gh))

CheckoutPR(prNumber, prTitle, targetRepo) ==
    /\ prCall' = [op |-> "checkoutPR", prNumber |-> prNumber, prTitle |-> prTitle, targetRepo |-> targetRepo]
    /\ Direct(checkoutPR(gh, prNumber, prTitle, targetRepo))

SyncToGitHub(comment, prNumber) ==
    /\ prCall' = [op |-> "syncToGitHub", comment |-> comment, prNumber |-> prNumber]
    /\ Direct(syncToGitHub(gh, comment, prNumber))

GetReviewableFiles(files, lang) ==
    /\ prCall' = [op |-> "getReviewableFiles", files |-> files, lang |-> lang]
    /\ Direct(Returned(getReviewableFiles(files, lang), <<>>))

HandleFetchPRInfo(prNumber, input, writeOk) ==
    LET r == handleFetchPRInfo(gh, prNumber, input)
        s == syncReviewComments(comments, r.synced, nextUuid)
    IN  /\ nextUuid + Len(gh.comments) <= MaxIds + 1
        /\ prCall' = [op |-> "handleFetchPRInfo", prNumber |-> prNumber, input |-> input]
        /\ Handled(r)
        /\ comments' = s.comments
        /\ nextUuid' = s.next
        /\ commentThreads' = commentThreads \cup s.threads
        /\ disk' = IF s.threads # {} /\ writeOk THEN DiskFile(SerializeStorage(s.comments)) ELSE disk
        /\ UNCHANGED <<workspaceRoot, loadPc, loadBuf, writes, docs, applyPending>>

HandleSyncFromGitHub(input) ==
    /\ prCall' = [op |-> "handleSyncFromGitHub", input |-> input]
    /\ Handled(handleSyncFromGitHub(gh, input))
    /\ UNCHANGED <<workspaceRoot, disk, ctrlVars>>

HandlePushToGitHub(reviewEvent) ==
    /\ prCall' = [op |-> "handlePushToGitHub", reviewEvent |-> reviewEvent]
    /\ Handled(handlePushToGitHub(gh, comments, reviewEvent))
    /\ UNCHANGED <<workspaceRoot, disk, ctrlVars>>

FetchPRInfoCommand(prNumber, input) ==
    /\ prCall' = [op |-> "fetchPRInfo", prNumber |-> prNumber, input |-> input]
    /\ Handled(fetchPRInfoCommand(gh, prNumber, input))
    /\ UNCHANGED <<workspaceRoot, disk, ctrlVars>>

OptTargets == {None} \cup {Some(r) : r \in Repos}
OptNumbers == {None, Some(0), Some(PRNumber)}

\* the comments a caller hands to syncToGitHub: with and without a
\* suggestion, of type suggestion and of another type
GrammarSuggestion ==
    MkComment(104, "f1", "You", "b", "grammar", 1, DateOf(0), FALSE,
              Some([original |-> "o", suggested |-> "s"]), <<>>, None)
BareSuggestion ==
    MkComment(105, "f1", "You", "b", "suggestion", 1, DateOf(0), FALSE, None, <<>>, None)
SyncComments == {PriorQuestion, PriorSuggestion, GrammarSuggestion, BareSuggestion}

RemoteNext ==
    \/ \E t \in OptTargets : GetPRInfo(PRNumber, t)
    \/ \E t \in OptTargets : GetPRFiles(PRNumber, t)
    \/ \E t \in OptTargets : GetPRCommits(PRNumber, t)
    \/ \E t \in OptTargets : GetPRComments(PRNumber, t)
    \/ GetPRDetails(PRNumber)
    \/ GetCurrentPRNumber
    \/ SyncGetCurrentPRNumberCall
    \/ \E t \in OptTargets : CheckoutPR(PRNumber, RemoteTitle, t)
    \/ \E c \in SyncComments, n \in OptNumbers : SyncToGitHub(c, n)

SpecRemote == RemoteInit /\ [][RemoteNext]_vars

\* the machines the handlers run on: gh missing, gh not logged in, gh ready
\* with at most one of the handlers' commands failing
FlowMachines ==
    {m \in Machines :
        /\ m.current[Upstream] = None
        /\ m.branch => m.down = {}
        /\ m.down \in {{}, {"gh pr view info"}, {"gh pr view number"}, {"gh api comments"},
                       {"gh pr checkout"}, {"gh pr review"}}}

FlowInit ==
    /\ ExtIdle
    /\ RTIdle
    /\ PushIdle
    /\ CallIdle
    /\ ImportIdle
    /\ workspaceRoot = TRUE
    /\ comments \in FlowStores
    /\ disk = DiskFile(SerializeStorage(comments))
    /\ commentThreads = {}
    /\ loadPc = "done"
    /\ loadBuf = disk
    /\ writes = <<>>
    /\ nextUuid = 1
    /\ docs = [f \in Files |-> [i \in 1..DocLines |-> "o"]]
    /\ applyPending = None
    /\ gh \in FlowMachines
    /\ prLog = <<>>
    /\ prCall = [op |-> "none"]
    /\ prResult = <<>>

FlowNext ==
    \/ \E input \in Inputs, writeOk \in BOOLEAN : HandleFetchPRInfo(None, input, writeOk)
    \/ \E writeOk \in BOOLEAN : HandleFetchPRInfo(Some(PRNumber), "", writeOk)
    \/ \E input \in Inputs : HandleSyncFromGitHub(input)
    \/ \E ev \in OptEvents : HandlePushToGitHub(ev)
    \/ \E input \in Inputs : FetchPRInfoCommand(None, input)
    \/ FetchPRInfoCommand(Some(PRNumber), "")

SpecFlow == FlowInit /\ [][FlowNext]_vars

(***************************************************************************)
(* Reviewable files and branch names over many paths and titles, on a      *)
(* machine where gh is ready.                                               *)
(***************************************************************************)
MaxFiles == 2      \* files in the list handed to getReviewableFiles
MaxTitleLen == 2   \* characters of the short titles

Langs == {"ko", "en"}

Paths ==
    { <<"content", "/", "ko", "/", "x", ".md">>,
      <<"i18n", "/", "ko", "/", "x", ".md">>,
      <<"x", "/", "ko", "/", "x", ".md">>,
      <<"x", "_", "ko", "_", "x", ".md">>,
      <<"x", "/", "ko", "_", "x", ".md">>,
      <<"x", "_", "ko", "/", "x", ".md">>,
      <<"content", "/", "en", "/", "x", ".md">>,
      <<"content", "/", "ko", "/", "x", ".txt">>,
      <<"content", "/", "KO", "/", "x", ".md">>,
      <<"content", "/", "ko", "/", "x", ".MD">>,
      <<"ko", "/", "x", ".md">>,
      <<"x", "ko", "/", "x", ".md">> }

FileLists == UNION {[1..n -> {[path |-> p, status |-> "modified"] : p \in Paths}] : n \in 0..MaxFiles}

Rep(ch, n) == [i \in 1..n |-> ch]

\* titles of up to MaxTitleLen characters, and titles around the cut
Titles ==
    UNION {[1..n -> TitleChars] : n \in 0..MaxTitleLen}
    \cup { Rep("a", SlugMax),
           Rep("a", SlugMax) \o <<"a">>,
           Rep("A", SlugMax + 1),
           Rep("a", SlugMax - 1) \o <<" ", "a">>,
           Rep("a", SlugMax - 1) \o <<"-">>,
           <<" ">> \o Rep("han", SlugMax - 2) \o <<" ", " ", "1">> }

LocalMachines ==
    {Machine(TRUE, TRUE, p, Some(PRNumber), None, {}, branch, d) :
        p \in OptParents, branch \in BOOLEAN, d \in {x \in RemoteData : x.files = <<>>}}

LocalInit ==
    /\ ExtIdle
    /\ RTIdle
    /\ PushIdle
    /\ CallIdle
    /\ ImportIdle
    /\ workspaceRoot = TRUE
    /\ comments = <<>>
    /\ disk = DiskFile(SerializeStorage(comments))
    /\ commentThreads = {}
    /\ loadPc = "done"
    /\ loadBuf = disk
    /\ writes = <<>>
    /\ nextUuid = 1
    /\ docs = [f \in Files |-> [i \in 1..DocLines |-> "o"]]
    /\ applyPending = None
    /\ gh \in LocalMachines
    /\ prLog = <<>>
    /\ prCall = [op |-> "none"]
    /\ prResult = <<>>

LocalNext ==
    \/ \E files \in FileLists, lang \in Langs : GetReviewableFiles(files, lang)
    \/ \E title \in Titles, t \in OptTargets : CheckoutPR(PRNumber, title, t)

SpecLocal == LocalInit /\ [][LocalNext]_vars

(***************************************************************************)
(* AIIntentClassifier: the intent of a chat message, asked of the AI       *)
(* service and, failing that, read from keywords.  A message is a sequence *)
(* of words; a confidence is an integer number of tenths.                  *)
(***************************************************************************)
MaxMsgLen == 2   \* words of a chat message

\* the words: the Korean keywords of lines 557-574 under ASCII names, the
\* English keyword in two spellings, an English word and a Korean word
KoreanWords == {"KoTranslate", "KoCorrect", "KoReview", "KoCase", "KoExample", "KoText"}
EnglishWords == {"translate", "Translate", "abc"}
Words == KoreanWords \cup EnglishWords
Messages == UNION {[1..n -> Words] : n \in 0..MaxMsgLen}

\* String.length of a word, and how many of its characters match [a-zA-Z]
WordLength(w) == IF w \in {"translate", "Translate"} THEN 9 ELSE IF w = "KoText" THEN 1 ELSE IF w = "abc" THEN 3 ELSE 2
WordLetters(w) == IF w \in EnglishWords THEN WordLength(w) ELSE 0
RECURSIVE MessageLength(_)
MessageLength(msg) == IF msg = <<>> THEN 0 ELSE WordLength(msg[1]) + MessageLength(Tail(msg))
RECURSIVE MessageLetters(_)
MessageLetters(msg) == IF msg = <<>> THEN 0 ELSE WordLetters(msg[1]) + MessageLetters(Tail(msg))

\* message.toLowerCase() and lowerMessage.includes(keyword)
MessageToLowerCase(msg) == [i \in 1..Len(msg) |-> IF msg[i] = "Translate" THEN "translate" ELSE msg[i]]
MessageIncludes(msg, keyword) == \E i \in 1..Len(msg) : msg[i] = keyword

IntentResult(intent, confidence, reasoning, extractedText) ==
    [intent |-> intent, confidence |-> confidence, reasoning |-> reasoning, extractedText |-> extractedText]

\* the catch of classifyIntent: a fixed default that names no fallback
FailedReasoning == <<"AI classification failed", "default intent">>
ParsedReasoning == <<"parsed AI response">>
FallbackReasoning(what) == <<"keyword based", "fallback", what>>

fallbackClassification(message) ==
    LET lowerMessage == MessageToLowerCase(message)
    IN  IF MessageIncludes(lowerMessage, "KoTranslate") \/ MessageIncludes(lowerMessage, "translate")
        THEN IntentResult("translation", 7, FallbackReasoning("translation request"), Some(message))
        ELSE IF MessageIncludes(lowerMessage, "KoCorrect") \/ MessageIncludes(lowerMessage, "KoReview")
        THEN IntentResult("translation_check", 6, FallbackReasoning("review request"), None)
        ELSE IF MessageIncludes(lowerMessage, "KoCase") \/ MessageIncludes(lowerMessage, "KoExample")
        THEN IntentResult("find_similar", 6, FallbackReasoning("example request"), None)
        \* englishRatio > 0.7; 0 / 0 is NaN, and NaN > 0.7 is false
        ELSE IF MessageLength(message) > 0 /\ 10 * MessageLetters(message) > 7 * MessageLength(message)
        THEN IntentResult("translation", 5, FallbackReasoning("mostly English"), Some(message))
        ELSE IntentResult("general", 3, FallbackReasoning("general talk"), None)

\* what translateText does: it throws, or it returns a text without a JSON
\* object ("plain"), with braces that JSON.parse rejects ("broken"), or with
\* a JSON object whose fields may be missing
Confidences == {-5, 0, 5, 7, 10, 15}
ParsedObjects ==
    [intent : {None, Some("translation")},
     confidence : {None} \cup {Some(c) : c \in Confidences},
     reasoning : {None, Some(<<"from the AI">>)}]
Responses ==
    {[kind |-> "throw"], [kind |-> "plain"], [kind |-> "broken"]}
        \cup {[kind |-> "json", parsed |-> o] : o \in ParsedObjects}

\* a || b of JavaScript for an optional number and for an optional string
OrNumber(x, d) == IF x = None \/ x = Some(0) THEN d ELSE x[1]
OrElse(x, d) == IF x = None THEN d ELSE x[1]
Clamp(x, lo, hi) == IF x < lo THEN lo ELSE IF x > hi THEN hi ELSE x

parseAIResponse(response, originalMessage) ==
    IF response.kind = "json"
    THEN IntentResult(OrElse(response.parsed.intent, "general"),
                      Clamp(OrNumber(response.parsed.confidence, 5), 0, 10),
                      OrElse(response.parsed.reasoning, ParsedReasoning),
                      None)
    ELSE fallbackClassification(originalMessage)

classifyIntent(message, response) ==
    IF response.kind = "throw"
    THEN IntentResult("general", 3, FailedReasoning, Some(message))
    ELSE parseAIResponse(response, message)

\* the classifier keeps no state between calls: one call a behaviour
ClassifyIntent(message, response) ==
    /\ aiCall.op = "none"
    /\ aiCall' = [op |-> "classifyIntent", message |-> message, response |-> response]
    /\ aiResult' = Some(classifyIntent(message, response))
    /\ UNCHANGED <<workspaceRoot, disk, rtVars, ctrlVars, pushVars, callVars, importVars, remoteVars, scrollVars>>

ClassifyInit ==
    /\ ExtIdle
    /\ RTIdle
    /\ CtrlIdle
    /\ PushIdle
    /\ CallIdle
    /\ ImportIdle
    /\ RemoteIdle
    /\ workspaceRoot = TRUE
    /\ disk = DiskAbsent

ClassifyNext == \E message \in Messages, response \in Responses : ClassifyIntent(message, response)

SpecClassify == ClassifyInit /\ [][ClassifyNext]_vars

(***************************************************************************)
(* TranslationCommandManager and ScrollSyncManager: the scroll-sync and    *)
(* Kubelingo switches, kept in workspaceState across restarts, and the     *)
(* listeners that keep the translation editors on the same top line.       *)
(***************************************************************************)
MaxLine == 2   \* lineCount - 1 of the documents in the translation editors

Modes == {"translation", "review"}
Listeners == {"onScroll", "onEditorsChanged"}
Lines == 0..MaxLine

\* the active editor: one of the translation editors or some other file
ActiveEditors == Editors \cup {"other"}

\* workspaceState.get(key, defaultValue)
StateGet(key, defaultValue) == IF workspaceState[key] = None THEN defaultValue ELSE workspaceState[key][1]

\* revealAtTop: the target line kept within the document
revealAtTop(targetTopLine) == IF targetTopLine < 0 THEN 0 ELSE IF targetTopLine > MaxLine THEN MaxLine ELSE targetTopLine

\* syncSingleEditor on every translation editor but the source
syncScrollToOtherEditors(tops, sourceEditor, targetTopLine) ==
    [e \in Editors |-> IF e = sourceEditor THEN tops[e] ELSE revealAtTop(targetTopLine)]

\* performInitialSync: nothing unless the active editor shows a translation file
performInitialSync(tops, activeEditor) ==
    IF activeEditor \in Editors THEN syncScrollToOtherEditors(tops, activeEditor, tops[activeEditor]) ELSE tops

\* activate() of a restarted extension host: a new TranslationCommandManager
\* with a new ScrollSyncManager, then initStateFromStorage(context)
InitStateFromStorage ==
    /\ isSyncScrollEnabled' = StateGet("syncScrollEnabled", FALSE)
    /\ isKubelingoEnabled' = StateGet("kubelingoEnabled", TRUE)
    /\ currentMode' = StateGet("kubelingoMode", "translation")
    /\ disposables' = {}
    /\ UNCHANGED <<workspaceRoot, disk, rtVars, ctrlVars, pushVars, callVars, importVars, remoteVars, aiVars,
                   workspaceState, topLine>>

ToggleSyncScroll(activeEditor) ==
    /\ IF ~isKubelingoEnabled
       THEN UNCHANGED <<isSyncScrollEnabled, disposables, topLine, workspaceState>>
       ELSE /\ isSyncScrollEnabled' = ~isSyncScrollEnabled
            /\ IF isSyncScrollEnabled'
               THEN /\ disposables' = Listeners
                    /\ topLine' = performInitialSync(topLine, activeEditor)
               ELSE /\ disposables' = {}
                    /\ UNCHANGED topLine
            /\ workspaceState' = [workspaceState EXCEPT !.syncScrollEnabled = Some(isSyncScrollEnabled')]
    /\ UNCHANGED <<workspaceRoot, disk, rtVars, ctrlVars, pushVars, callVars, importVars, remoteVars, aiVars,
                   isKubelingoEnabled, currentMode>>

\* toggleKubelingo with disableSyncScrollWhenKubelingoDisabled and saveKubelingoState
ToggleKubelingo ==
    /\ isKubelingoEnabled' = ~isKubelingoEnabled
    /\ IF ~isKubelingoEnabled' /\ isSyncScrollEnabled
       THEN /\ isSyncScrollEnabled' = FALSE
            /\ disposables' = {}
            /\ workspaceState' = [workspaceState EXCEPT !.syncScrollEnabled = Some(FALSE),
                                                        !.kubelingoEnabled = Some(isKubelingoEnabled')]
       ELSE /\ UNCHANGED <<isSyncScrollEnabled, disposables>>
            /\ workspaceState' = [workspaceState EXCEPT !.kubelingoEnabled = Some(isKubelingoEnabled')]
    /\ UNCHANGED <<workspaceRoot, disk, rtVars, ctrlVars, pushVars, callVars, importVars, remoteVars, aiVars,
                   currentMode, topLine>>

ChangeMode(mode) ==
    /\ IF ~isKubelingoEnabled
       THEN UNCHANGED <<currentMode, workspaceState>>
       ELSE /\ currentMode' = mode
            /\ workspaceState' = [workspaceState EXCEPT !.kubelingoMode = Some(mode)]
    /\ UNCHANGED <<workspaceRoot, disk, rtVars, ctrlVars, pushVars, callVars, importVars, remoteVars, aiVars,
                   isSyncScrollEnabled, isKubelingoEnabled, disposables, topLine>>

\* the user scrolls a translation editor; handleScrollEvent runs when its
\* listener is registered
Scroll(editor, line) ==
    /\ topLine[editor] # line
    /\ topLine' = IF "onScroll" \in disposables
                  THEN syncScrollToOtherEditors([topLine EXCEPT ![editor] = line], editor, line)
                  ELSE [topLine EXCEPT ![editor] = line]
    /\ UNCHANGED <<workspaceRoot, disk, rtVars, ctrlVars, pushVars, callVars, importVars, remoteVars, aiVars,
                   isSyncScrollEnabled, isKubelingoEnabled, currentMode, disposables, workspaceState>>

\* the extension just activated for the first time in a workspace
ScrollInit ==
    /\ AiIdle
    /\ RTIdle
    /\ CtrlIdle
    /\ PushIdle
    /\ CallIdle
    /\ ImportIdle
    /\ RemoteIdle
    /\ workspaceRoot = TRUE
    /\ disk = DiskAbsent
    /\ isSyncScrollEnabled = FALSE
    /\ isKubelingoEnabled = TRUE
    /\ currentMode = "translation"
    /\ disposables = {}
    /\ workspaceState = [syncScrollEnabled |-> None, kubelingoEnabled |-> None, kubelingoMode |-> None]
    /\ topLine = [e \in Editors |-> 0]

ScrollNext ==
    \/ InitStateFromStorage
    \/ \E activeEditor \in ActiveEditors : ToggleSyncScroll(activeEditor)
    \/ ToggleKubelingo
    \/ \E mode \in Modes : ChangeMode(mode)
    \/ \E editor \in Editors, line \in Lines : Scroll(editor, line)

SpecScroll == ScrollInit /\ [][ScrollNext]_vars

(***************************************************************************)
(* The controller under overlapping callers: a second mutating operation   *)
(* is called while the writeFile of the first is still in flight.  The     *)
(* writes succeed; the file system settles them in either order.           *)
(***************************************************************************)
MaxOverlap == 2   \* writeFile calls in flight at once

\* the store of an earlier session: two suggestions on the same file
OverlapStore ==
    <<[k |-> "f2", v |-> <<PriorComment>>], [k |-> "f1", v |-> <<PriorSuggestion, GrammarSuggestion>>]>>
OverlapIds == {PriorSuggestion.id, GrammarSuggestion.id}

OverlapInit ==
    /\ ExtIdle
    /\ RTIdle
    /\ PushIdle
    /\ CallIdle
    /\ ImportIdle
    /\ RemoteIdle
    /\ workspaceRoot = TRUE
    /\ comments = OverlapStore
    /\ disk = DiskFile(SerializeStorage(comments))
    /\ commentThreads = RestoredThreads(comments, Files)
    /\ loadPc = "done"
    /\ loadBuf = disk
    /\ writes = <<>>
    /\ nextUuid = 1
    /\ docs = [f \in Files |-> [i \in 1..DocLines |-> "o"]]
    /\ applyPending = None

\* resolveComment(commentId) called, whatever is in flight
OverlapResolveComment(commentId) ==
    /\ Len(writes) < MaxOverlap
    /\ resolveComment(commentId)
    /\ UNCHANGED <<workspaceRoot, disk, nonCtrlVars, loadPc, loadBuf, nextUuid, docs, applyPending>>

\* applySuggestion after its edit, whatever is in flight
OverlapApplyResume ==
    /\ applyPending # None
    /\ Len(writes) < MaxOverlap
    /\ IF applyPending[1].ok
       THEN resolveComment(applyPending[1].id)
       ELSE UNCHANGED <<comments, commentThreads, writes>>
    /\ applyPending' = None
    /\ UNCHANGED <<workspaceRoot, disk, nonCtrlVars, loadPc, loadBuf, nextUuid, docs>>

OverlapNext ==
    \/ \E id \in OverlapIds : OverlapResolveComment(id)
    \/ \E id \in OverlapIds, f \in Files : ApplySuggestion(id, Some(f), TRUE)
    \/ OverlapApplyResume
    \/ \E i \in 1..MaxOverlap : WriteDone(i, TRUE)

SpecOverlap == OverlapInit /\ [][OverlapNext]_vars

(***************************************************************************)
(* The claims.                                                             *)
(***************************************************************************)
Range(q) == {q[i] : i \in 1..Len(q)}
IdsOf(q) == {q[i].id : i \in 1..Len(q)}
IdSeq(q) == [i \in 1..Len(q) |-> q[i].id]

\* C2: once a comment of the in-memory store has resolved = true, no step
\* leaves a comment with that id in the store with resolved = false.
C2_ResolvedMonotonic ==
    [][\A i \in 1..Len(Flatten(comments)) : \A j \in 1..Len(Flatten(comments')) :
          (Flatten(comments)[i].resolved /\ Flatten(comments')[j].id = Flatten(comments)[i].id)
              => Flatten(comments')[j].resolved]_vars

\* C3: no step removes a comment from the in-memory store, however the
\* constructor's load interleaves with addComment, addSuggestion and
\* resolveComment.
C3_NoDeletion == [][StoreIds(comments) \subseteq StoreIds(comments')]_vars

\* C4: no two top-level comments of the store, in the same file or in
\* different files, have the same id.
C4_UniqueIds ==
    \A i \in 1..Len(Flatten(comments)) : \A j \in 1..Len(Flatten(comments)) :
        i # j => Flatten(comments)[i].id # Flatten(comments)[j].id

C4_Witness ==
    /\ Len(comments) = 2
    /\ Len(Flatten(comments)) = MaxIds + 1
    /\ PriorComment.id \in StoreIds(comments)
    /\ \E e \in 1..Len(comments) : Len(comments[e].v) >= 2

\* C5: every comment of the store has a suggestion payload if and only if
\* its type is 'suggestion'.
C5_SuggestionInvariant ==
    \A i \in 1..Len(Flatten(comments)) :
        (Flatten(comments)[i].suggestion # None) <=> (Flatten(comments)[i].type = "suggestion")

\* C6: getUnresolvedComments() holds every top-level comment with
\* resolved = false exactly once and no resolved comment, whatever the
\* comments' prCommentId.
C6_UnresolvedExact ==
    LET all == Flatten(comments)
        r == getUnresolvedComments(comments)
    IN /\ \A i \in 1..Len(all) :
             ~all[i].resolved => Cardinality({j \in 1..Len(r) : r[j] = all[i]}) = 1
       /\ \A j \in 1..Len(r) : ~r[j].resolved /\ r[j] \in Range(all)

C6_Witness ==
    LET all == Flatten(comments)
        r == getUnresolvedComments(comments)
    IN /\ Len(comments) = 2
       /\ \E i \in 1..Len(all) : all[i].resolved
       /\ \E j \in 1..Len(r) : r[j].prCommentId # None
       /\ \E j \in 1..Len(r) : r[j].prCommentId = None

\* the push candidates of a store: unresolved and without a remote id, files
\* in Map order
Candidates(m) ==
    SelectSeq(Flatten(m), LAMBDA c : ~c.resolved /\ c.prCommentId = None)

NoVerdictCall == pushPc \in {"loop", "done"} /\ pushArgs.reviewEvent = None

\* C7: a pushAllToGitHub call without a verdict hands syncToGitHub exactly
\* the comments that were unresolved and without prCommentId when it was
\* called, and returns at most their number.
C7_PushSelection ==
    NoVerdictCall =>
        /\ Range(pushAttempted) \cup IdsOf(pushQueue) = IdsOf(Candidates(pushSnapshot))
        /\ pushPc = "done" =>
              /\ Range(pushAttempted) = IdsOf(Candidates(pushSnapshot))
              /\ pushResult # None
              /\ pushResult[1] <= Len(Candidates(pushSnapshot))

C7_Witness ==
    /\ NoVerdictCall
    /\ pushPc = "done"
    /\ Range(pushAttempted) = {PushA.id, PushD.id}
    /\ PushB.id \in StoreIds(pushSnapshot)
    /\ PushC.id \in StoreIds(pushSnapshot)
    /\ pushResult = Some(1)

C9_VerdictSingleReview ==
    (pushPc = "done" /\ pushArgs.reviewEvent # None /\ pushResult # None /\ pushResult[1] >= 0)
        => /\ remoteLog = <<[kind |-> "review", event |-> pushArgs.reviewEvent[1]]>>
           /\ pushAttempted = <<>>
           /\ pushResult[1] = Len(Candidates(pushSnapshot))

\* C10: a call without a verdict hands every candidate to syncToGitHub
\* once, in selection order and one at a time, goes on after a failed push,
\* never throws, and returns the number of pushes that succeeded.
C10_BatchIsolation ==
    NoVerdictCall =>
        /\ pushAttempted \o IdSeq(pushQueue) = IdSeq(Candidates(pushSnapshot))
        /\ pushInflight # None => pushInflight[1].id = pushAttempted[Len(pushAttempted)]
        /\ pushPc = "done" =>
              /\ pushAttempted = IdSeq(Candidates(pushSnapshot))
              /\ pushResult = Some(Len(remoteLog))
              /\ pushCalls = 1 =>
                    IdSeq(remoteLog) = SelectSeq(pushAttempted,
                        LAMBDA id : [id |-> id, ok |-> TRUE] \in pushHistory)

C10_Witness ==
    /\ pushCalls = 1
    /\ NoVerdictCall
    /\ pushPc = "done"
    /\ pushAttempted = <<PushA.id, PushD.id>>
    /\ [id |-> PushA.id, ok |-> FALSE] \in pushHistory
    /\ IdSeq(remoteLog) = <<PushD.id>>
    /\ pushResult = Some(1)

\* C11: when applySuggestion(id) returns after a successful edit of an
\* unresolved comment's suggestion anchored at line n, line n of the active
\* document is suggestion.suggested, every other line of every document is as
\* before the call, and the comment has resolved = true.
C11_ApplySuccess ==
    (callPc = "returned" /\ callOp.op = "applySuggestion" /\ callOut.edit = "ok"
        /\ ~findComment(callPre.comments, callOp.id)[1].resolved)
    => LET c == findComment(callPre.comments, callOp.id)[1]
           f == callOp.editor[1]
       IN /\ docs[f][c.lineNumber] = c.suggestion[1].suggested
          /\ \A g \in Files : Len(docs[g]) = Len(callPre.docs[g])
          /\ \A g \in Files : \A i \in 1..Len(docs[g]) :
                (g # f \/ i # c.lineNumber) => docs[g][i] = callPre.docs[g][i]
          /\ findComment(comments, callOp.id) # None
          /\ findComment(comments, callOp.id)[1].resolved

C11_Witness ==
    /\ callPc = "returned"
    /\ callOp.op = "applySuggestion"
    /\ callOut.edit = "ok"
    /\ callOp.id = 1
    /\ ~findComment(callPre.comments, 1)[1].resolved
    /\ findComment(comments, 1)[1].lineNumber = 2
    /\ docs[callOp.editor[1]] = <<"o", "s">>
    /\ findComment(comments, 1)[1].resolved

HasMessage(level) == \E i \in 1..Len(callOut.messages) : callOut.messages[i].level = level

\* the call was applySuggestion on a comment that had a suggestion, and it returned
ApplyReturned ==
    /\ callPc = "returned"
    /\ callOp.op = "applySuggestion"
    /\ findComment(callPre.comments, callOp.id) # None
    /\ findComment(callPre.comments, callOp.id)[1].suggestion # None

\* C12: when applySuggestion returns and the edit was rejected or there was
\* no active editor, an error message was shown and no success message, and
\* the store (so the comment's resolved flag), the thread handles and the file
\* are as before the call; applySuggestion changes the store only after a
\* successful edit.
C12_ApplyFailure ==
    ApplyReturned =>
        /\ callOut.edit # "ok" =>
              /\ HasMessage("error")
              /\ ~HasMessage("info")
              /\ comments = callPre.comments
              /\ commentThreads = callPre.threads
              /\ disk = callPre.disk
              /\ docs = callPre.docs
        /\ comments # callPre.comments => callOut.edit = "ok"

C12_Witness ==
    /\ ApplyReturned
    /\ callOut.edit = "failed"
    /\ callOp.id \in commentThreads
    /\ ~findComment(comments, callOp.id)[1].resolved
    /\ workspaceRoot
    /\ callCount = 2

\* the call named an id the store did not hold, or applySuggestion named a
\* comment without a suggestion
UnknownIdCall ==
    /\ callPc = "returned"
    /\ callOp.op \in {"applySuggestion", "resolveComment", "rejectSuggestion"}
    /\ \/ findComment(callPre.comments, callOp.id) = None
       \/ /\ callOp.op = "applySuggestion"
          /\ findComment(callPre.comments, callOp.id)[1].suggestion = None

\* C13: applySuggestion, resolveComment and rejectSuggestion on an id that is
\* not in the store (applySuggestion also on a comment without a suggestion)
\* end with an error thrown or shown and with no success message, and leave
\* the store and the documents as they were.
C13_UnknownIdReported ==
    UnknownIdCall =>
        /\ callOut.threw \/ HasMessage("error")
        /\ ~HasMessage("info")
        /\ comments = callPre.comments
        /\ docs = callPre.docs

\* C14: resolveComment(id) on an existing comment returns with resolved =
\* true; called again right after on the same id it returns with resolved =
\* true, the same store (comments, order, fields) as after the first call,
\* and no thread handle for the comment.
C14_IdempotentResolve ==
    (callPc = "returned" /\ callOp.op = "resolveComment"
        /\ findComment(callPre.comments, callOp.id) # None)
    => /\ findComment(comments, callOp.id) # None
       /\ findComment(comments, callOp.id)[1].resolved
       /\ callOp.id \notin commentThreads
       /\ callOp.again =>
             /\ comments = callPre.comments
             /\ commentThreads = callPre.threads

C14_Witness ==
    /\ callPc = "returned"
    /\ callOp.op = "resolveComment"
    /\ callOp.again
    /\ callCount = 3
    /\ callOp.id = 1
    /\ findComment(comments, 1) # None
    /\ findComment(comments, 1)[1].resolved
    /\ Len(Flatten(comments)) = 3

\* C15: with a workspace root and one caller at a time, when addComment,
\* addSuggestion, resolveComment, rejectSuggestion or a successful
\* applySuggestion returns after its write succeeded, the file holds the
\* serialization of the whole in-memory mapping and loads back as that
\* mapping; while the call is in flight the file is still the whole file of
\* before the call.
C15_FlushAfterMutation ==
    /\ (callPc = "returned" /\ workspaceRoot /\ callOut.write = "saved") =>
          /\ disk = DiskFile(SerializeStorage(comments))
          /\ loadComments(workspaceRoot, disk) = comments
    /\ callPc \in {"editing", "saving"} => disk = callPre.disk

C15_Witness ==
    /\ callPc = "returned"
    /\ workspaceRoot
    /\ callOut.write = "saved"
    /\ callOp.op = "applySuggestion"
    /\ callPre.disk # disk
    /\ Len(Flatten(comments)) = 3
    /\ loadComments(workspaceRoot, disk) = comments

\* C16: when the filesystem rejects the write of a mutating operation's
\* save, storage.saveComments throws and the operation ends with that error
\* reaching its caller, without a success message.
C16_SaveFailureSurfaced ==
    (callPc = "returned" /\ callOut.write = "threw") =>
        /\ callOut.threw
        /\ ~HasMessage("info")

\* C17: loadComments returns, and returns an empty mapping when the file is
\* absent, when it does not parse and when there is no workspace root;
\* without a workspace root saveComments, saveFileComments, exists and clear
\* return without throwing and leave the file as it was, exists answering
\* false.
C17_StoreFailsSoft ==
    /\ (rtPc \in {"loaded", "loadedAfterSave"}
          /\ (~workspaceRoot \/ disk.kind \in {"absent", "corrupt"}))
        => rtLoaded = Some(<<>>)
    /\ (~workspaceRoot /\ rtCall.op # "none") =>
          /\ disk = rtCall.diskBefore
          /\ rtPc # "threw"
          /\ rtCall.op \in {"saveFileComments", "clear"} => rtCall.outcome = "skipped"
          /\ rtCall.op = "saveFileComments" /\ rtPc = "fileLoaded" =>
                \A f \in Files : rtCall.after[f] = <<>>
          /\ rtCall.op = "exists" => ~rtCall.result

C17_Witness ==
    /\ ~workspaceRoot
    /\ disk.kind = "file"
    /\ rtPc = "loaded"
    /\ rtCall.op = "saveComments"
    /\ rtInput # <<>>
    /\ rtLoaded = Some(<<>>)

\* the state after saveFileComments(p, cs) returned and loadFileComments was
\* called for every path
SaveFileReturned ==
    /\ rtPc = "fileLoaded"
    /\ rtCall.op = "saveFileComments"
    /\ rtCall.outcome # "threw"

\* C18 as stated: after saveFileComments(p, cs), loadFileComments(p) returns
\* cs and loadFileComments(q) returns what it returned before, for every
\* other path q.
C18_SaveFileFrame ==
    SaveFileReturned =>
        /\ rtCall.after[rtInput[1].k] = rtInput[1].v
        /\ \A q \in Files \ {rtInput[1].k} : rtCall.after[q] = rtCall.before[q]

\* C18 amended: with a workspace root, after saveFileComments(p, cs) returned,
\* loadFileComments(p) returns cs and every other path what it returned
\* before; without a workspace root the call changes nothing and
\* loadFileComments returns [] for every path, before and after.
C18_SaveFileFrameWithRoot ==
    SaveFileReturned =>
        /\ workspaceRoot =>
              /\ rtCall.after[rtInput[1].k] = rtInput[1].v
              /\ \A q \in Files \ {rtInput[1].k} : rtCall.after[q] = rtCall.before[q]
        /\ ~workspaceRoot =>
              /\ disk = rtCall.diskBefore
              /\ \A q \in Files : rtCall.after[q] = <<>> /\ rtCall.before[q] = <<>>

C18_Witness ==
    /\ SaveFileReturned
    /\ workspaceRoot
    /\ rtInput[1].k = "f2"
    /\ Len(rtInput[1].v) = 2
    /\ rtCall.before["f1"] = <<RTReply>>
    /\ rtCall.after["f1"] = <<RTReply>>
    /\ rtCall.after["f2"] = rtInput[1].v
    /\ rtCall.before["f2"] = <<>>

\* what C19 says of the result, with the given id prefix: one local comment
\* per fetched remote comment, in order, with that id, the remote id as
\* prCommentId, resolved = false and no replies
OnePerRemote(prefix) ==
    syncPc = "returned" =>
        /\ syncResult # None
        /\ Len(syncResult[1]) = Len(ghFetched)
        /\ \A i \in 1..Len(ghFetched) :
              /\ syncResult[1][i].id = [prefix |-> prefix, id |-> ghFetched[i].id]
              /\ syncResult[1][i].prCommentId = Some(ghFetched[i].id)
              /\ ~syncResult[1][i].resolved
              /\ syncResult[1][i].replies = <<>>

ImportKeepsStore ==
    [][UNCHANGED syncPc \/ UNCHANGED <<comments, commentThreads, writes, disk>>]_vars

SuggestionBlocks(body) ==
    {[from |-> i, to |-> j, text |-> SubSeq(body, i + 3, j - 2)] :
        <<i, j>> \in {<<x, y>> \in (1..Len(body)) \X (1..Len(body)) :
                        /\ Starts(body, x, <<Fence, "suggestion", Nl>>)
                        /\ y >= x + 3
                        /\ body[y] = Fence
                        /\ body[y - 1] = Nl
                        /\ \A z \in (x + 3)..(y - 1) : ~(body[z] = Fence /\ body[z - 1] = Nl)}}

FirstBlock(body) ==
    CHOOSE b \in SuggestionBlocks(body) : \A c \in SuggestionBlocks(body) : b.from <= c.from

\* the body with the block cut out, with or without the newlines that
\* separate it from the text after it
BodiesWithout(body, b) ==
    {SubSeq(body, 1, b.from - 1) \o SubSeq(body, b.to + 1 + k, Len(body)) :
        k \in {n \in 0..2 : /\ b.to + n <= Len(body)
                             /\ \A z \in (b.to + 1)..(b.to + n) : body[z] = Nl}}

\* C20: an imported comment has type 'suggestion' exactly when the remote
\* body contains a fenced suggestion block; then suggestion.suggested is the
\* fenced text, suggestion.original is empty and body is the remote body
\* without the block; otherwise it has type 'general', no suggestion and the
\* remote body.
C20_ImportClassification ==
    syncPc = "returned" =>
        \A i \in 1..Len(ghFetched) :
            LET remote == ghFetched[i].body
                c == syncResult[1][i]
            IN IF SuggestionBlocks(remote) # {}
               THEN /\ c.type = "suggestion"
                    /\ c.suggestion = Some([original |-> "", suggested |-> FirstBlock(remote).text])
                    /\ c.body \in BodiesWithout(remote, FirstBlock(remote))
               ELSE /\ c.type = "general"
                    /\ c.suggestion = None
                    /\ c.body = remote

\* C21: importRemoteComments (syncFromGitHub) is all-or-nothing: when the
\* fetch of the remote review comments fails, the call fails, and never
\* returns a sequence, empty or partial, in place of the error.
C21_ImportAllOrNothing == ghExec = "failed" => (syncPc = "threw" /\ syncResult = None)

\* the remote creates among the commands of a call
Creates(log) == SelectSeq(log, LAMBDA c : c.name = "gh pr review")

\* C22: a pushComment (syncToGitHub) call issues exactly one remote create,
\* whose body is the fenced suggestion block followed by the free-text body
\* whenever the comment has a suggestion, whatever its type, and the plain
\* body otherwise; without a PR number, given or resolvable, it fails and
\* issues no remote create.
C22_PushOneCreate ==
    prCall.op = "syncToGitHub" =>
        IF Truthy(prCall.prNumber) \/ Truthy(SyncGetCurrentPRNumber(gh).value)
        THEN /\ Len(Creates(prLog)) = 1
             /\ Creates(prLog)[1].arg =
                    Some([fence |-> IF prCall.comment.suggestion # None
                                    THEN Some(prCall.comment.suggestion[1].suggested)
                                    ELSE None,
                          text |-> prCall.comment.body])
        ELSE prResult.threw /\ Creates(prLog) = <<>>

\* the PR queries among the commands of a call
PRQueries(log) ==
    SelectSeq(log, LAMBDA c : c.name \in {"gh pr view info", "gh pr view files",
                                          "gh pr view commits", "gh api comments"})

\* gh repo view answered that the repository is a fork and named its parent
ForkReported == ExecOk(gh, Cmd("gh repo view", None, None, None)) /\ gh.parent # None

Issued(log, name) == SelectSeq(log, LAMBDA c : c.name = name)

\* did the fetch of that name, run by the call, succeed
FetchOk(name) == Issued(prLog, name) # <<>> /\ ExecOk(gh, Issued(prLog, name)[1])

RECURSIVE RawTotal(_, _)
\* the sum of an optional number over the files the remote lists
RawTotal(q, field) ==
    IF q = <<>> THEN 0
    ELSE (IF q[1][field] = None THEN 0 ELSE q[1][field][1]) + RawTotal(Tail(q), field)

\* C24: getPRDetails never throws and returns null exactly when the PR info
\* fetch fails; a failing files or commits fetch leaves that part empty; and
\* the totals are the number of files, the number of commits and the sums of
\* the files' additions and deletions.
C24_DetailsTotals ==
    prCall.op = "getPRDetails" =>
        /\ ~prResult.threw
        /\ prResult.value = None <=> ~FetchOk("gh pr view info")
        /\ prResult.value # None =>
              LET d == prResult.value[1]
                  files == IF FetchOk("gh pr view files") THEN gh.files ELSE <<>>
                  commits == IF FetchOk("gh pr view commits") THEN gh.commits ELSE <<>>
              IN  /\ [i \in 1..Len(d.files) |-> d.files[i].path] = [i \in 1..Len(files) |-> files[i].path]
                  /\ [i \in 1..Len(d.commits) |-> d.commits[i].sha] = [i \in 1..Len(commits) |-> commits[i].oid]
                  /\ d.stats.totalFiles = Len(files)
                  /\ d.stats.totalCommits = Len(commits)
                  /\ d.stats.totalAdditions = RawTotal(files, "additions")
                  /\ d.stats.totalDeletions = RawTotal(files, "deletions")

C24_Witness ==
    /\ prCall.op = "getPRDetails"
    /\ gh.down = {"gh pr view files"}
    /\ Len(gh.files) = 2
    /\ prResult.value # None
    /\ prResult.value[1].files = <<>>
    /\ prResult.value[1].stats.totalFiles = 0
    /\ prResult.value[1].stats.totalCommits = 2

\* the commands that carry out an operation, as opposed to the fork lookup
\* and the probe for the local branch
UnderlyingCalls ==
    {"gh pr view info", "gh pr view files", "gh pr view commits", "gh api comments",
     "gh pr checkout", "git checkout", "git pull"}

\* C25: when the underlying remote call of getPRInfo, getPRFiles,
\* getPRCommits, getPRComments or checkoutPR, called directly, fails, the
\* call throws the error of that command, does not return an empty or null
\* result in its place, and does not issue the command again.
C25_RemoteFailureThrown ==
    prCall.op \in {"getPRInfo", "getPRFiles", "getPRCommits", "getPRComments", "checkoutPR"} =>
        \A i \in 1..Len(prLog) :
            (prLog[i].name \in UnderlyingCalls /\ ~ExecOk(gh, prLog[i])) =>
                /\ prResult.threw
                /\ prResult.error = Some(prLog[i])
                /\ Len(Issued(prLog, prLog[i].name)) = 1

\* gh pr view finds a pull request for the branch in the repository named
FoundIn(repo) == ExecOk(gh, Cmd("gh pr view number", repo, None, None))

\* C26: PRInfoService.getCurrentPRNumber never throws; its first command
\* queries the current repository and it returns that number when one is
\* found, without any other query; only when none is found and the
\* repository reports a fork does it query the parent, after the current
\* repository, returning the parent's number when found; otherwise null.
C26_CurrentThenParent ==
    prCall.op = "PRInfoService.getCurrentPRNumber" =>
        /\ ~prResult.threw
        /\ prLog # <<>>
        /\ prLog[1] = Cmd("gh pr view number", None, None, None)
        /\ \A i \in 1..Len(prLog) : prLog[i].repo # None => i > 1
        /\ IF FoundIn(None)
           THEN prResult.value = gh.current[Origin] /\ Len(prLog) = 1
           ELSE IF ForkReported
           THEN /\ Issued(prLog, "gh pr view number") =
                       <<Cmd("gh pr view number", None, None, None),
                         Cmd("gh pr view number", gh.parent, None, None)>>
                /\ prResult.value = IF FoundIn(gh.parent) THEN gh.current[gh.parent[1]] ELSE None
           ELSE /\ Len(Issued(prLog, "gh pr view number")) = 1
                /\ prResult.value = None

C26_Witness ==
    /\ prCall.op = "PRInfoService.getCurrentPRNumber"
    /\ gh.current[Origin] = None
    /\ ForkReported
    /\ Len(prLog) = 3
    /\ prLog[3].repo = Some(Upstream)
    /\ prResult.value = Some(OtherPRNumber)

\* C27: GitHubReviewSync.getCurrentPRNumber is a pass-through: on every
\* machine and remote (PR on the current repository, PR only on the parent
\* of a fork, no PR, failing gh) it returns what
\* PRInfoService.getCurrentPRNumber returns there, and does not throw.
C27_PassThrough ==
    /\ prCall.op = "GitHubReviewSync.getCurrentPRNumber" =>
          (~prResult.threw /\ prResult.value = getCurrentPRNumber(gh).value)
    /\ prCall.op = "PRInfoService.getCurrentPRNumber" =>
          prResult.value = SyncGetCurrentPRNumber(gh).value

\* the path, read without regard to case, names the locale directory:
\* content/<locale>/, i18n/<locale>/, a /<locale>/ or a _<locale>_ segment
IndicatesLocale(path, lang) ==
    \/ Includes(PathToLowerCase(path), <<"content", "/", lang, "/">>)
    \/ Includes(PathToLowerCase(path), <<"i18n", "/", lang, "/">>)
    \/ Includes(PathToLowerCase(path), <<"/", lang, "/">>)
    \/ Includes(PathToLowerCase(path), <<"_", lang, "_">>)

\* C28: getReviewableFiles(files, locale) returns, in input order, exactly
\* the files whose path names the locale directory and whose extension is
\* .md.
C28_ReviewableFiles ==
    prCall.op = "getReviewableFiles" =>
        prResult.value =
            SelectSeq(prCall.files,
                      LAMBDA f : /\ IndicatesLocale(f.path, prCall.lang)
                                 /\ f.path[Len(f.path)] = ".md")

\* the branch names in the commands of a call
Branches(log) == {log[i].arg[1] : i \in {j \in 1..Len(log) : log[j].arg # None}}

\* C29: checkoutPR(n, t) uses the local branch pr-<n>/<slug(t)> in all its
\* commands; the slug is lower-case, holds only allowed characters and
\* single hyphens in place of the other runs, neither starts nor ends with
\* a hyphen, and has at most 50 characters.
C29_BranchSlug ==
    prCall.op = "checkoutPR" =>
        /\ Cardinality(Branches(prLog)) = 1
        /\ \A b \in Branches(prLog) :
              /\ b.prefix = "pr-"
              /\ b.number = prCall.prNumber
              /\ Len(b.slug) <= SlugMax
              /\ \A i \in 1..Len(b.slug) : b.slug[i] \in SlugChars \cup {"-"}
              /\ \A i \in 1..(Len(b.slug) - 1) : ~(b.slug[i] = "-" /\ b.slug[i + 1] = "-")
              /\ b.slug # <<>> => (b.slug[1] # "-" /\ b.slug[Len(b.slug)] # "-")

\* the positions of the PR remote calls (gh commands other than the two
\* checks) among the commands of a call
PRRemoteCalls(log) ==
    {i \in 1..Len(log) : log[i].name \notin SetupCommands \cup GitCommands}

\* the check of that name ran, with success, before position i
CheckedBefore(log, name, i) ==
    \E j \in 1..(i - 1) : log[j].name = name /\ ExecOk(gh, log[j])

\* C30: in every handler that performs a PR operation (fetch PR info and
\* checkout, import remote comments, push comments or submit a review) the
\* installed check and the authenticated check succeed before the first PR
\* remote call; when a check fails no PR remote call is issued and the user
\* gets the install or login guidance.
C30_ChecksBeforeRemote ==
    prCall.op \in {"handleFetchPRInfo", "handleSyncFromGitHub", "handlePushToGitHub", "fetchPRInfo"} =>
        /\ \A i \in PRRemoteCalls(prLog) :
              /\ CheckedBefore(prLog, "gh --version", i)
              /\ CheckedBefore(prLog, "gh auth status", i)
        /\ \A j \in 1..Len(prLog) :
              (prLog[j].name \in SetupCommands /\ ~ExecOk(gh, prLog[j])) =>
                  /\ PRRemoteCalls(prLog) = {}
                  /\ \E k \in 1..Len(prResult.messages) :
                        prResult.messages[k] \in {InstallGuidance, LoginGuidance}

\* C31: when the AI service call throws, classifyIntent does not throw and
\* returns the keyword-based fallback classification of the original
\* message, with the intent the keyword rules give and a reasoning that
\* names the fallback.
C31_FallbackOnFailure ==
    (aiCall.op = "classifyIntent" /\ aiCall.response.kind = "throw") =>
        /\ aiResult = Some(fallbackClassification(aiCall.message))
        /\ MessageIncludes(aiResult[1].reasoning, "fallback")

\* C32: for every numeric confidence c of a parsable AI response the result
\* carries min(max(c, 0), 1): 0 below the range, 1 above it, and every value
\* within the range, 0 included, unchanged.
C32_ConfidenceClamped ==
    (/\ aiCall.op = "classifyIntent"
     /\ aiCall.response.kind = "json"
     /\ aiCall.response.parsed.confidence # None) =>
        LET c == aiCall.response.parsed.confidence[1]
        IN  /\ aiResult[1].confidence = Clamp(c, 0, 10)
            /\ (c \in 0..10 => aiResult[1].confidence = c)

\* C40: in every state reached through initStateFromStorage, toggleSyncScroll
\* and toggleKubelingo, a restart that restores syncScrollEnabled = true
\* included, the scroll listeners are registered if and only if
\* isSyncScrollEnabled, and isSyncScrollEnabled only while isKubelingoEnabled.
C40_FlagAndListenersAgree ==
    /\ (disposables # {}) <=> isSyncScrollEnabled
    /\ isSyncScrollEnabled => isKubelingoEnabled

ResolvedIds(m) == {c.id : c \in {x \in Range(Flatten(m)) : x.resolved}}

\* the store of the earlier session with the comments of ids marked resolved
ResolvedVariant(ids) ==
    [i \in 1..Len(OverlapStore) |->
        [k |-> OverlapStore[i].k,
         v |-> [n \in 1..Len(OverlapStore[i].v) |->
                   [OverlapStore[i].v[n] EXCEPT !.resolved = (OverlapStore[i].v[n].id \in ids)]]]]

\* the content is the whole mapping as the store held it at some save so far
WholeMapping(content) ==
    \E ids \in SUBSET ResolvedIds(comments) : content = SerializeStorage(ResolvedVariant(ids))

\* C33: mutating operations are not reentrant-safe.  Each save of two
\* overlapping resolveComment or applySuggestion calls on comments of one
\* file serializes the entire mapping as it is at the save, and the file is
\* always one such whole mapping; the witness is the lost update: both calls
\* have completed, every write succeeded, and the file lacks a resolution
\* the in-memory store contains.
C33_WholeMappingSaves ==
    /\ [](/\ \A i \in 1..Len(writes) : WholeMapping(writes[i])
          /\ \E ids \in SUBSET ResolvedIds(comments) :
                disk = DiskFile(SerializeStorage(ResolvedVariant(ids))))
    /\ [][Len(writes') > Len(writes) => writes'[Len(writes')] = SerializeStorage(comments')]_vars

C33_LostUpdate ==
    /\ writes = <<>>
    /\ applyPending = None
    /\ ResolvedIds(comments) = OverlapIds
    /\ disk = DiskFile(SerializeStorage(ResolvedVariant({PriorSuggestion.id})))

\* C34: every id in commentThreads is the id of a comment of the store with
\* resolved = false: resolveComment leaves no handle for its comment and no
\* later operation, restoring the comments of a document included, creates
\* a handle for a resolved comment.
C34_ThreadRegistry ==
    \A id \in commentThreads :
        /\ findComment(comments, id) # None
        /\ ~findComment(comments, id)[1].resolved

\* the body syncReviewComments gives the local copy of a remote review comment
ImportedBody(body) == <<"GitHub Review", Nl, Nl>> \o body
\* in the PR handlers only syncReviewComments creates comments: every comment
\* that is not of the earlier session is the local copy of a remote one
EarlierIds == UNION {IdsOf(Flatten(s)) : s \in FlowStores}
IsImported(c) == c.id \notin EarlierIds

\* C35: a local comment created from a remote review comment, by
\* importRemoteComments or by the PR fetch flow that merges the fetched
\* review comments, carries the remote id and is never among the push
\* candidates of a later pushAllToGitHub.
C35_ImportedNeverPushed ==
    \A c \in Range(Flatten(comments)) :
        IsImported(c) =>
            /\ c.prCommentId # None
            /\ c \notin Range(UnsyncedComments(comments))

\* the local comments made from remote review comment r
LocalCopies(r) ==
    {p \in 1..Len(Flatten(comments)) :
        /\ IsImported(Flatten(comments)[p])
        /\ Flatten(comments)[p].filePath = r.path
        /\ Flatten(comments)[p].body = ImportedBody(r.body)}

\* C37: running handleFetchPRInfo two or more times for the same pull
\* request leaves at most one local comment for each remote review comment.
C37_NoDuplicateImport ==
    \A i \in 1..Len(gh.comments) : Cardinality(LocalCopies(gh.comments[i])) <= 1

\* applySuggestion returned, having been called on a comment the store held
\* with a suggestion
AppliedSuggestion ==
    /\ callPc = "returned"
    /\ callOp.op = "applySuggestion"
    /\ findComment(callPre.comments, callOp.id) # None
    /\ findComment(callPre.comments, callOp.id)[1].suggestion # None

\* C38: once a suggestion comment is resolved (by applySuggestion,
\* rejectSuggestion or resolveComment), a later applySuggestion(id) does not
\* modify any document.
C38_AppliedAtMostOnce ==
    (AppliedSuggestion /\ findComment(callPre.comments, callOp.id)[1].resolved) =>
        docs = callPre.docs

\* C39: for a comment anchored in file F, applySuggestion(id) changes no line
\* of any other document, whichever document is active in the editor.
C39_OwnFileOnly ==
    AppliedSuggestion =>
        \A g \in Files \ {findComment(callPre.comments, callOp.id)[1].filePath} :
            docs[g] = callPre.docs[g]

\* the fields of a comment that say where it is and what it is
Identity(c) ==
    [id |-> c.id, filePath |-> c.filePath, lineNumber |-> c.lineNumber, author |-> c.author,
     body |-> c.body, type |-> c.type, createdAt |-> c.createdAt, suggestion |-> c.suggestion]

\* before is a prefix of after, up to the resolved flags
ExtendedBy(before, after) ==
    /\ Len(before) <= Len(after)
    /\ \A n \in 1..Len(before) : Identity(after[n]) = Identity(before[n])

\* C36: no operation changes id, filePath, lineNumber, author, body, type,
\* createdAt or suggestion of an existing comment, not even applySuggestion
\* when it edits the document, and addComment and addSuggestion only append
\* to the end of the file's list: across every step each file's list of
\* before is, up to the resolved flags, a prefix of the file's list after.
C36_IdentityImmutable ==
    [][\A i \in 1..Len(comments) :
          /\ MapHas(comments', comments[i].k)
          /\ ExtendedBy(comments[i].v, MapGet(comments', comments[i].k))]_vars

C36_Witness ==
    /\ callPc = "returned"
    /\ callOp.op = "addSuggestion"
    /\ MapHas(comments, "f1")
    /\ Len(MapGet(comments, "f1")) = 2
    /\ MapGet(comments, "f1")[1].id = PriorSuggestion.id
    /\ MapGet(comments, "f1")[1].resolved
    /\ docs["f1"][1] = "s"

====
